---- MODULE Spec2Model ----
(***************************************************************************)
(* Unicorn Factory: the tokenomics ledger engine of the Express server.    *)
(*                                                                         *)
(* The server keeps five in-memory maps (projects, holdings, offers,       *)
(* milestones, proposals) and runs every request handler to completion on  *)
(* the single Node.js event loop, so each handler is one atomic action.    *)
(*                                                                         *)
(* Money is a JavaScript number (IEEE 754 binary64) in the source.  The     *)
(* ledger specification Spec holds it as an exact fixed-point integer that  *)
(* counts units of 0.0001 (the value of SLOPE): BASE_PRICE = 0.01 is 100    *)
(* units and FUNDING_CAP = 100,000 is 10^9 units; it follows the handlers'  *)
(* guards, writes and responses, and leaves the rounding of sums out.  The  *)
(* quote specification SpecQuote evaluates the pricing function and the two *)
(* quote loops bit for bit in binary64, on the decimals a request carries.  *)
(* Numbers in requests are finite, and token counts are whole numbers, as   *)
(* in the data model.                                                       *)
(***************************************************************************)
EXTENDS Integers, Sequences, FiniteSets, TLC

VARIABLES
  projects,    \* Map<ProjectId, Project>: a sequence, the id is the index
  holdings,    \* Map<`${userId}:${projectId}`, Holding>: <<userId, projectId>> -> balance
  offers,      \* Map<string, Offer>: a sequence, the id is the index
  milestones,  \* Map<string, Milestone>: a sequence, the id is the index
  proposals,   \* Map<string, Proposal>: a sequence, the id is the index
  res,         \* the response being sent (with its request), NoResponse when idle
  nTrades,     \* successful buy, sell, create-offer and fill requests so far
  nGov,        \* successful milestone, proposal, vote and release requests so far
  quote,       \* scratch state of the quote-engine specification SpecQuote
  limits,      \* how many projects, offers, ... and requests the run may have
  loop,        \* the event loop of the specification SpecLoop: requests in flight
  moved,       \* history: per milestone, the total its Releases have moved so far
  copies       \* the stores and answers of the three server copies of SpecCopies

vars == <<projects, holdings, offers, milestones, proposals, res, nTrades, nGov, quote, limits, loop, moved, copies>>
store == <<projects, holdings, offers, milestones, proposals>>

----------------------------------------------------------------------------
(* Program constants, in units of 0.0001 *)

BASE_PRICE == 100
SLOPE == 1
FUNDING_CAP == 1000000000
MAX_STEPS == 5000
FOUNDER_ALLOCATION == 100

----------------------------------------------------------------------------
(* Bounds of the exploration *)

MaxTrades == 2
MaxGov == 4
SmallGoal == 100000
MaxQuoteSupply == 3
MaxQuoteFunds == 650
MaxInFlight == 2
MaxEscrow == 2
MaxSeedProjects == 2
MaxCopyTrades == 2

Users == {"alice", "bob"}
Founders == {"alice"}
FillAmounts == {0, 1, 2, 3}
\* The runs explored: a long run on one project; a governance run and a
\* trading run on two projects of one founder; a governance run on two
\* projects that either user may found; and a governance run with two
\* proposals for one milestone. Outside the first, one trade funds the
\* reserve and two create and fill an offer.
Runs ==
  { [projects |-> 1, offers |-> 1, milestones |-> 1, proposals |-> 1,
     founders |-> Founders, trades |-> MaxTrades, gov |-> MaxGov],
    [projects |-> 2, offers |-> 1, milestones |-> 1, proposals |-> 1,
     founders |-> Founders, trades |-> 1, gov |-> MaxGov - 1],
    [projects |-> 2, offers |-> 1, milestones |-> 0, proposals |-> 0,
     founders |-> Founders, trades |-> 2, gov |-> 0],
    [projects |-> 2, offers |-> 0, milestones |-> 1, proposals |-> 1,
     founders |-> Users, trades |-> 0, gov |-> MaxGov - 1],
    [projects |-> 1, offers |-> 0, milestones |-> 1, proposals |-> 2,
     founders |-> Founders, trades |-> 1, gov |-> MaxGov + 3] }

\* the ids a request may name
ProjectIds == 1..limits.projects
OfferIds == 1..limits.offers
MilestoneIds == 1..limits.milestones
ProposalIds == 1..limits.proposals
GoalChoices == {0, SmallGoal}
BuyAmounts == {0, 150, SmallGoal, FUNDING_CAP}
PriceChoices == {0, 5}
MilestoneAmounts == {0, 6000000}
ProposalAmounts == {0, 6000000, 10000001}

Max(a, b) == IF a >= b THEN a ELSE b
Min(a, b) == IF a <= b THEN a ELSE b

----------------------------------------------------------------------------
(* Pricing function and quote engine, in exact units of 0.0001 *)

\* Faulty variant of priceAtSupply: the supply does not move the price.
priceAtSupply_Flat(supply) == BASE_PRICE

\* return BASE_PRICE + SLOPE * supply
priceAtSupply(supply) == BASE_PRICE + SLOPE * supply

\* Faulty variant of BuyStep: the loop has no iteration ceiling.
BuyStep_NoCeiling(st) ==
  IF st.run /\ st.budget > 0
  THEN LET p == priceAtSupply(st.s) IN
       IF st.budget >= p
       THEN [tokens |-> st.tokens + 1, budget |-> st.budget - p,
             s |-> st.s + 1, steps |-> st.steps + 1, run |-> TRUE]
       ELSE [st EXCEPT !.run = FALSE]
  ELSE [st EXCEPT !.run = FALSE]

\* One evaluation of the while-loop of buyTokensQuote: the loop condition,
\* then the body.  run = FALSE once the loop has exited.
BuyStep(st) ==
  IF st.run /\ st.budget > 0 /\ st.steps < MAX_STEPS
  THEN LET p == priceAtSupply(st.s) IN
       IF st.budget >= p
       THEN [tokens |-> st.tokens + 1, budget |-> st.budget - p,
             s |-> st.s + 1, steps |-> st.steps + 1, run |-> TRUE]
       ELSE [st EXCEPT !.run = FALSE]
  ELSE [st EXCEPT !.run = FALSE]

\* n consecutive evaluations of the loop, split in halves so that the
\* nesting depth stays logarithmic in n.
RECURSIVE BuyLoop(_, _)
BuyLoop(st, n) ==
  IF ~st.run THEN st
  ELSE IF n <= 1 THEN BuyStep(st)
  ELSE LET h == n \div 2 IN BuyLoop(BuyLoop(st, h), n - h)

buyTokensQuote(currentSupply, amountIn) ==
  BuyLoop([tokens |-> 0, budget |-> amountIn, s |-> currentSupply,
           steps |-> 0, run |-> TRUE], MAX_STEPS + 1).tokens

SellStep(st) ==
  IF st.run /\ st.t > 0 /\ st.s >= 0 /\ st.steps < MAX_STEPS
  THEN [out |-> st.out + priceAtSupply(st.s), s |-> st.s - 1,
        t |-> st.t - 1, steps |-> st.steps + 1, run |-> TRUE]
  ELSE [st EXCEPT !.run = FALSE]

RECURSIVE SellLoop(_, _)
SellLoop(st, n) ==
  IF ~st.run THEN st
  ELSE IF n <= 1 THEN SellStep(st)
  ELSE LET h == n \div 2 IN SellLoop(SellLoop(st, h), n - h)

sellTokensQuote(currentSupply, tokensIn) ==
  SellLoop([out |-> 0, s |-> Max(0, currentSupply - 1), t |-> tokensIn,
            steps |-> 0, run |-> TRUE], MAX_STEPS + 1).out

----------------------------------------------------------------------------
(* JavaScript numbers.  A non-negative binary64 value is held exactly, as a  *)
(* fixed-point number of seven 16-bit limbs, least significant first: limbs  *)
(* 1..5 are the fraction (down to 2^-80), limbs 6..7 the integer part.  This *)
(* holds every value from 2^-26 up to 2^31 that the engine meets; each       *)
(* operation computes the exact result and rounds it to 53 significant bits, *)
(* to nearest, ties to even, as IEEE 754 prescribes.                         *)

Limbs == 1..7
Radix == 2^16

RECURSIVE Carried(_, _, _)
\* the limbs of the number with raw per-limb values, carries and borrows
\* propagated from limb i upwards
Carried(raw, i, c) ==
  IF i > 7 THEN <<>>
  ELSE LET v == raw[i] + c IN <<v % Radix>> \o Carried(raw, i + 1, v \div Radix)

Normal(raw) == Carried(raw, 1, 0)

\* x < y: the most significant limb that differs decides
Less(x, y) ==
  LET D == {i \in Limbs : x[i] # y[i]} IN
  D # {} /\ LET m == CHOOSE i \in D : \A j \in D : j <= i IN x[m] < y[m]

IsZero(x) == \A i \in Limbs : x[i] = 0

\* the number of significant bits of x
BitLength(x) ==
  IF IsZero(x) THEN 0
  ELSE LET m == CHOOSE i \in Limbs : x[i] # 0 /\ \A j \in Limbs : j > i => x[j] = 0
           w == CHOOSE k \in 1..16 : x[m] < 2^k /\ x[m] >= 2^(k - 1)
       IN 16 * (m - 1) + w

\* bit k of x, bit 0 being the least significant
Bit(x, k) == (x[k \div 16 + 1] \div 2^(k % 16)) % 2

\* what limb i holds of the bits of x below bit k
LowPart(x, i, k) ==
  IF 16 * i <= k THEN x[i]
  ELSE IF 16 * (i - 1) >= k THEN 0
  ELSE x[i] % 2^(k - 16 * (i - 1))

\* x rounded to 53 significant bits; sticky tells that the exact value has
\* non-zero bits below the last limb
Round53(x, sticky) ==
  LET d == BitLength(x) - 53 IN
  IF d <= 0 THEN x
  ELSE LET guard == Bit(x, d - 1) = 1
           rest == sticky \/ \E i \in Limbs : LowPart(x, i, d - 1) # 0
           odd == Bit(x, d) = 1
           trunc == [i \in Limbs |-> x[i] - LowPart(x, i, d)]
           ulp == [i \in Limbs |-> IF i = d \div 16 + 1 THEN 2^(d % 16) ELSE 0]
       IN IF guard /\ (rest \/ odd)
          THEN Normal([i \in Limbs |-> trunc[i] + ulp[i]])
          ELSE Normal(trunc)

RECURSIVE FractionLimbs(_, _, _)
\* the first n limbs of the fraction r / d (r < d), most significant first,
\* followed by the remainder
FractionLimbs(r, d, n) ==
  IF n = 0 THEN <<r>>
  ELSE <<(r * Radix) \div d>> \o FractionLimbs((r * Radix) % d, d, n - 1)

\* the binary64 nearest to the decimal n / d: a literal of the source or a
\* number of a JSON body
FromDecimal(n, d) ==
  LET fl == FractionLimbs(n % d, d, 5)
      ip == n \div d
  IN Round53(<<fl[5], fl[4], fl[3], fl[2], fl[1], ip % Radix, ip \div Radix>>, fl[6] # 0)

\* the binary64 of an amount counted in units of 0.0001
Number64(units) == FromDecimal(units, 10000)

\* x + y
Plus(x, y) == Round53(Normal([i \in Limbs |-> x[i] + y[i]]), FALSE)

\* x - y, for x >= y
Minus(x, y) == Round53(Normal([i \in Limbs |-> x[i] - y[i]]), FALSE)

\* x * k, for a whole number k below 2^14
Times(x, k) == Round53(Normal([i \in Limbs |-> x[i] * k]), FALSE)

----------------------------------------------------------------------------
(* Pricing function and quote engine, evaluated in binary64 *)

BASE_PRICE64 == Number64(BASE_PRICE)
SLOPE64 == Number64(SLOPE)

\* Faulty variant of priceAtSupply64: the supply does not move the price.
priceAtSupply64_Flat(supply) == BASE_PRICE64

priceAtSupply64(supply) == Plus(BASE_PRICE64, Times(SLOPE64, supply))

BuyStep64(st) ==
  IF st.run /\ ~IsZero(st.budget) /\ st.steps < MAX_STEPS
  THEN LET p == priceAtSupply64(st.s) IN
       IF ~Less(st.budget, p)
       THEN [tokens |-> st.tokens + 1, budget |-> Minus(st.budget, p),
             s |-> st.s + 1, steps |-> st.steps + 1, run |-> TRUE]
       ELSE [st EXCEPT !.run = FALSE]
  ELSE [st EXCEPT !.run = FALSE]

RECURSIVE BuyLoop64(_, _)
BuyLoop64(st, n) ==
  IF ~st.run THEN st
  ELSE IF n <= 1 THEN BuyStep64(st)
  ELSE LET h == n \div 2 IN BuyLoop64(BuyLoop64(st, h), n - h)

buyTokensQuote64(currentSupply, amountIn) ==
  BuyLoop64([tokens |-> 0, budget |-> amountIn, s |-> currentSupply,
             steps |-> 0, run |-> TRUE], MAX_STEPS + 1).tokens

SellStep64(st) ==
  IF st.run /\ st.t > 0 /\ st.s >= 0 /\ st.steps < MAX_STEPS
  THEN [out |-> Plus(st.out, priceAtSupply64(st.s)), s |-> st.s - 1,
        t |-> st.t - 1, steps |-> st.steps + 1, run |-> TRUE]
  ELSE [st EXCEPT !.run = FALSE]

RECURSIVE SellLoop64(_, _)
SellLoop64(st, n) ==
  IF ~st.run THEN st
  ELSE IF n <= 1 THEN SellStep64(st)
  ELSE LET h == n \div 2 IN SellLoop64(SellLoop64(st, h), n - h)

sellTokensQuote64(currentSupply, tokensIn) ==
  SellLoop64([out |-> Number64(0), s |-> Max(0, currentSupply - 1), t |-> tokensIn,
              steps |-> 0, run |-> TRUE], MAX_STEPS + 1).out

----------------------------------------------------------------------------
(* Ledger helpers *)

Key(userId, projectId) == <<userId, projectId>>

\* holdings.get(key) is defined
HasHolding(key) == key \in DOMAIN holdings

\* balance of a holding, 0 when there is none
Balance(key) == IF HasHolding(key) THEN holdings[key] ELSE 0

\* const h = holdings.get(key) || { balance: 0 }; h.balance += n; holdings.set(key, h)
Credit(key, n) ==
  [k \in DOMAIN holdings \cup {key} |-> IF k = key THEN Balance(key) + n ELSE holdings[k]]

\* Faulty variant of Debit: the holding is stored back without the debit.
Debit_Kept(key, n) ==
  [k \in DOMAIN holdings \cup {key} |-> IF k = key THEN Balance(key) ELSE holdings[k]]

\* h.balance -= n; holdings.set(key, h)
Debit(key, n) ==
  [k \in DOMAIN holdings \cup {key} |-> IF k = key THEN Balance(key) - n ELSE holdings[k]]

\* Faulty variant of InsufficientBalance: the balance is not compared.
InsufficientBalance_NoCompare(key, n) == ~HasHolding(key)

\* the guard `!h || h.balance < tokens` of sell and of create offer
InsufficientBalance(key, n) == ~HasHolding(key) \/ holdings[key] < n

----------------------------------------------------------------------------
(* Responses *)

NoResponse == [op |-> "none", userId |-> "", id |-> 0, a |-> 0, b |-> 0,
              code |-> 0, error |-> "", out |-> 0]

Response(op, userId, id, a, b, code, error, out) ==
  [op |-> op, userId |-> userId, id |-> id, a |-> a, b |-> b,
   code |-> code, error |-> error, out |-> out]

\* Faulty variant of Reject: the buy handler stores the caller's holding
\* before it validates the request.
Reject_StoresHolding(op, userId, id, a, b, code, error) ==
  /\ res' = Response(op, userId, id, a, b, code, error, 0)
  /\ holdings' = IF op = "buy" THEN Credit(Key(userId, id), 0) ELSE holdings
  /\ UNCHANGED <<projects, offers, milestones, proposals, nTrades, nGov, quote, limits, loop, moved, copies>>

\* return res.status(code).json({ error }) before any write
Reject(op, userId, id, a, b, code, error) ==
  /\ res' = Response(op, userId, id, a, b, code, error, 0)
  /\ UNCHANGED <<store, nTrades, nGov, quote, limits, loop, moved, copies>>

----------------------------------------------------------------------------
(* POST /projects *)

\* fundingGoal: typeof fundingGoal === 'number' && fundingGoal > 0 ? fundingGoal : FUNDING_CAP
\* (an absent or non-numeric fundingGoal is the request value 0)
GoalOf(fundingGoal) == IF fundingGoal > 0 THEN fundingGoal ELSE FUNDING_CAP

\* Faulty variant of SupplyAfterAllocation: the allocation is not minted.
SupplyAfterAllocation_Forgotten(supply) == supply

\* project.supply += 100
SupplyAfterAllocation(supply) == supply + FOUNDER_ALLOCATION

\* valid: name, summary and plan are all present in the body
CreateProject(userId, valid, fundingGoal) ==
  LET id == Len(projects) + 1 IN
  IF ~valid
  THEN Reject("createProject", userId, 0, fundingGoal, 0, 400, "name, summary, plan required")
  ELSE /\ id <= limits.projects
       /\ projects' = Append(projects,
            [founderId |-> userId, supply |-> SupplyAfterAllocation(0), reserve |-> 0,
             capReached |-> FALSE, fundingGoal |-> GoalOf(fundingGoal)])
       /\ holdings' = Credit(Key(userId, id), FOUNDER_ALLOCATION)
       /\ res' = Response("createProject", userId, id, fundingGoal, 0, 200, "", 0)
       /\ UNCHANGED <<offers, milestones, proposals, nTrades, nGov, quote, limits, loop, moved, copies>>

----------------------------------------------------------------------------
(* POST /projects/:id/buy *)

\* Faulty variant of BuyRefused: the gate reads the reserve, not the flag.
BuyRefused_ByReserve(p) == p.reserve >= FUNDING_CAP

\* if (p.capReached) return 400
BuyRefused(p) == p.capReached

\* Faulty variant of ReserveAfterBuy: the reserve is overwritten.
ReserveAfterBuy_Overwrite(reserve, amount) == amount

\* p.reserve += amount
ReserveAfterBuy(reserve, amount) == reserve + amount

\* Faulty variant of CapAfterBuy: the cap must be exceeded, not reached.
CapAfterBuy_Strict(capReached, reserve) == IF reserve > FUNDING_CAP THEN TRUE ELSE capReached

\* if (p.reserve >= FUNDING_CAP) p.capReached = true
CapAfterBuy(capReached, reserve) == IF reserve >= FUNDING_CAP THEN TRUE ELSE capReached

\* Faulty variant of NothingBought: a quote of no token is let through.
NothingBought_Never(tokensOut) == FALSE

\* if (tokensOut <= 0)
NothingBought(tokensOut) == tokensOut <= 0

Buy(userId, id, amount) ==
  IF id \notin DOMAIN projects
  THEN Reject("buy", userId, id, amount, 0, 404, "not found")
  ELSE LET p == projects[id] IN
  IF BuyRefused(p)
  THEN Reject("buy", userId, id, amount, 0, 400, "funding cap reached")
  ELSE IF amount <= 0
  THEN Reject("buy", userId, id, amount, 0, 400, "amount > 0 required")
  ELSE /\ nTrades < limits.trades
       /\ \E tokensOut \in {buyTokensQuote(p.supply, amount)} :
            IF NothingBought(tokensOut)
            THEN Reject("buy", userId, id, amount, 0, 400, "amount too small for current price")
            ELSE LET reserve == ReserveAfterBuy(p.reserve, amount) IN
                 /\ projects' = [projects EXCEPT ![id] =
                      [p EXCEPT !.supply = p.supply + tokensOut,
                                !.reserve = reserve,
                                !.capReached = CapAfterBuy(p.capReached, reserve)]]
                 /\ holdings' = Credit(Key(userId, id), tokensOut)
                 /\ res' = Response("buy", userId, id, amount, 0, 200, "", tokensOut)
                 /\ nTrades' = nTrades + 1
                 /\ UNCHANGED <<offers, milestones, proposals, nGov, quote, limits, loop, moved, copies>>

----------------------------------------------------------------------------
(* POST /projects/:id/sell *)

\* Faulty variant of SupplyAfterSell: the tokens sold are not burnt.
SupplyAfterSell_Unburnt(supply, tokens) == supply

\* p.supply = Math.max(0, p.supply - tokens)
SupplyAfterSell(supply, tokens) == Max(0, supply - tokens)

\* Faulty variant of ReserveAfterSell: no clamp at zero.
ReserveAfterSell_Unclamped(reserve, amountOut) == reserve - amountOut

\* p.reserve = Math.max(0, p.reserve - amountOut)
ReserveAfterSell(reserve, amountOut) == Max(0, reserve - amountOut)

\* Faulty variant of ProjectAfterSell: the flag is derived again from the
\* reserve the sale has left.
ProjectAfterSell_RederivesCap(p, tokens, amountOut) ==
  [p EXCEPT !.supply = SupplyAfterSell(p.supply, tokens),
            !.reserve = ReserveAfterSell(p.reserve, amountOut),
            !.capReached = (ReserveAfterSell(p.reserve, amountOut) >= FUNDING_CAP)]

\* the project after the sale: supply and reserve are written, nothing else
ProjectAfterSell(p, tokens, amountOut) ==
  [p EXCEPT !.supply = SupplyAfterSell(p.supply, tokens),
            !.reserve = ReserveAfterSell(p.reserve, amountOut)]

Sell(userId, id, tokens) ==
  IF id \notin DOMAIN projects
  THEN Reject("sell", userId, id, tokens, 0, 404, "not found")
  ELSE LET p == projects[id]
           key == Key(userId, id) IN
  IF tokens <= 0
  THEN Reject("sell", userId, id, tokens, 0, 400, "tokens > 0 required")
  ELSE IF InsufficientBalance(key, tokens)
  THEN Reject("sell", userId, id, tokens, 0, 400, "insufficient balance")
  ELSE /\ nTrades < limits.trades
       /\ \E amountOut \in {sellTokensQuote(p.supply, tokens)} :
            /\ projects' = [projects EXCEPT ![id] = ProjectAfterSell(p, tokens, amountOut)]
            /\ holdings' = Debit(key, tokens)
            /\ res' = Response("sell", userId, id, tokens, 0, 200, "", amountOut)
            /\ nTrades' = nTrades + 1
            /\ UNCHANGED <<offers, milestones, proposals, nGov, quote, limits, loop, moved, copies>>

----------------------------------------------------------------------------
(* POST /projects/:id/offers *)

\* Faulty variant of NothingOffered: an amount of 0 is let through.
NothingOffered_ZeroAllowed(pricePerToken, amount) == pricePerToken <= 0 \/ amount < 0

\* if (pricePerToken <= 0 || amount <= 0)
NothingOffered(pricePerToken, amount) == pricePerToken <= 0 \/ amount <= 0

CreateOffer(userId, id, pricePerToken, amount) ==
  IF id \notin DOMAIN projects
  THEN Reject("createOffer", userId, id, amount, pricePerToken, 404, "not found")
  ELSE LET key == Key(userId, id) IN
  IF NothingOffered(pricePerToken, amount)
  THEN Reject("createOffer", userId, id, amount, pricePerToken, 400,
              "pricePerToken and amount > 0 required")
  ELSE IF InsufficientBalance(key, amount)
  THEN Reject("createOffer", userId, id, amount, pricePerToken, 400, "insufficient balance")
  ELSE /\ nTrades < limits.trades
       /\ Len(offers) < limits.offers
       /\ holdings' = Debit(key, amount)
       /\ offers' = Append(offers,
            [projectId |-> id, sellerId |-> userId, pricePerToken |-> pricePerToken,
             amount |-> amount, status |-> "open"])
       /\ res' = Response("createOffer", userId, id, amount, pricePerToken, 200, "",
                           Len(offers) + 1)
       /\ nTrades' = nTrades + 1
       /\ UNCHANGED <<projects, milestones, proposals, nGov, quote, limits, loop, moved, copies>>

----------------------------------------------------------------------------
(* POST /projects/:id/offers/:offerId/fill *)

\* Faulty variant of Take: the request is not capped by what the offer holds.
Take_Uncapped(offer, amount) == Max(0, amount)

\* const take = Math.max(0, Math.min(offer.amount, Number(req.body?.amount || 0)))
Take(offer, amount) == Max(0, Min(offer.amount, amount))

\* Faulty variant of OfferAfterFill: the escrow is not reduced.
OfferAfterFill_KeepsAmount(offer, take) == offer

\* offer.amount -= take; if (offer.amount === 0) offer.status = 'filled'
OfferAfterFill(offer, take) ==
  [offer EXCEPT !.amount = offer.amount - take,
                !.status = IF offer.amount - take = 0 THEN "filled" ELSE offer.status]

\* Faulty variant of NotOpen: every offer passes for open.
NotOpen_Never(offer) == FALSE

\* if (offer.status !== 'open' || offer.amount <= 0)
NotOpen(offer) == offer.status # "open" \/ offer.amount <= 0

Fill(buyerId, id, offerId, amount) ==
  IF id \notin DOMAIN projects
  THEN Reject("fill", buyerId, id, amount, offerId, 404, "not found")
  ELSE IF offerId \notin DOMAIN offers \/ offers[offerId].projectId # id
  THEN Reject("fill", buyerId, id, amount, offerId, 404, "offer not found")
  ELSE LET offer == offers[offerId] IN
  IF NotOpen(offer)
  THEN Reject("fill", buyerId, id, amount, offerId, 400, "offer not open")
  ELSE LET take == Take(offer, amount) IN
  IF take <= 0
  THEN Reject("fill", buyerId, id, amount, offerId, 400, "amount > 0 required")
  ELSE /\ nTrades < limits.trades
       /\ holdings' = Credit(Key(buyerId, id), take)
       /\ offers' = [offers EXCEPT ![offerId] = OfferAfterFill(offer, take)]
       /\ res' = Response("fill", buyerId, id, amount, offerId, 200, "", take)
       /\ nTrades' = nTrades + 1
       /\ UNCHANGED <<projects, milestones, proposals, nGov, quote, limits, loop, moved, copies>>

----------------------------------------------------------------------------
(* POST /projects/:id/milestones *)

\* titled: the trimmed title is not empty
CreateMilestone(userId, id, titled, amount) ==
  IF id \notin DOMAIN projects
  THEN Reject("createMilestone", userId, id, amount, 0, 404, "not found")
  ELSE LET p == projects[id] IN
  IF p.founderId # userId
  THEN Reject("createMilestone", userId, id, amount, 0, 403,
              "only founder can create milestones")
  ELSE IF ~titled \/ amount <= 0
  THEN Reject("createMilestone", userId, id, amount, 0, 400, "title and amount > 0 required")
  ELSE /\ nGov < limits.gov
       /\ Len(milestones) < limits.milestones
       /\ milestones' = Append(milestones,
            [projectId |-> id, amount |-> amount, status |-> "pending"])
       /\ res' = Response("createMilestone", userId, id, amount, 0, 200, "",
                           Len(milestones) + 1)
       /\ nGov' = nGov + 1
       /\ UNCHANGED <<projects, holdings, offers, proposals, nTrades, quote, limits, loop, moved, copies>>

----------------------------------------------------------------------------
(* POST /projects/:id/proposals *)

\* Faulty variant of InvalidAmount: the milestone's amount is no ceiling.
InvalidAmount_NoCeiling(amount, m) == amount <= 0

\* if (amount <= 0 || amount > m.amount)
InvalidAmount(amount, m) == amount <= 0 \/ amount > m.amount

CreateProposal(userId, id, milestoneId, amount) ==
  IF id \notin DOMAIN projects
  THEN Reject("createProposal", userId, id, amount, milestoneId, 404, "not found")
  ELSE LET p == projects[id] IN
  IF p.founderId # userId
  THEN Reject("createProposal", userId, id, amount, milestoneId, 403,
              "only founder can create proposals")
  ELSE IF milestoneId \notin DOMAIN milestones \/ milestones[milestoneId].projectId # id
  THEN Reject("createProposal", userId, id, amount, milestoneId, 400, "invalid milestone")
  ELSE LET m == milestones[milestoneId] IN
  IF InvalidAmount(amount, m)
  THEN Reject("createProposal", userId, id, amount, milestoneId, 400, "invalid amount")
  ELSE /\ nGov < limits.gov
       /\ Len(proposals) < limits.proposals
       /\ proposals' = Append(proposals,
            [projectId |-> id, milestoneId |-> milestoneId, amount |-> amount,
             approvals |-> 0, rejections |-> 0, released |-> FALSE])
       /\ res' = Response("createProposal", userId, id, amount, milestoneId, 200, "",
                           Len(proposals) + 1)
       /\ nGov' = nGov + 1
       /\ UNCHANGED <<projects, holdings, offers, milestones, nTrades, quote, limits, loop, moved, copies>>

----------------------------------------------------------------------------
(* POST /projects/:id/proposals/:proposalId/vote *)

\* Faulty variant of ProposalNotFound: the proposal's project is not compared.
ProposalNotFound_AnyProject(id, proposalId) == proposalId \notin DOMAIN proposals

\* if (!pr || pr.projectId !== p.id)
ProposalNotFound(id, proposalId) ==
  proposalId \notin DOMAIN proposals \/ proposals[proposalId].projectId # id

\* Faulty variant of Counted: an approving vote is counted on both sides.
Counted_Twice(pr, approve) ==
  IF approve = 1
  THEN [pr EXCEPT !.approvals = pr.approvals + 1, !.rejections = pr.rejections + 1]
  ELSE [pr EXCEPT !.rejections = pr.rejections + 1]

\* if (approve) pr.approvals += 1; else pr.rejections += 1
Counted(pr, approve) ==
  IF approve = 1 THEN [pr EXCEPT !.approvals = pr.approvals + 1]
                 ELSE [pr EXCEPT !.rejections = pr.rejections + 1]

\* approve is the request value 1, reject the request value 0; the handler
\* never reads the caller's id
Vote(id, proposalId, approve) ==
  IF id \notin DOMAIN projects
  THEN Reject("vote", "", id, approve, proposalId, 404, "not found")
  ELSE IF ProposalNotFound(id, proposalId)
  THEN Reject("vote", "", id, approve, proposalId, 404, "proposal not found")
  ELSE LET pr == proposals[proposalId] IN
       /\ nGov < limits.gov
       /\ proposals' = [proposals EXCEPT ![proposalId] = Counted(pr, approve)]
       /\ res' = Response("vote", "", id, approve, proposalId, 200, "", 0)
       /\ nGov' = nGov + 1
       /\ UNCHANGED <<projects, holdings, offers, milestones, nTrades, quote, limits, loop, moved, copies>>

----------------------------------------------------------------------------
(* POST /projects/:id/proposals/:proposalId/release *)

\* Faulty variant of ReleaseAmount: the amount is not capped by the reserve.
ReleaseAmount_Uncapped(pr, p) == pr.amount

\* const amount = Math.min(pr.amount, p.reserve)
ReleaseAmount(pr, p) == Min(pr.amount, p.reserve)

\* Faulty variant of ReserveAfterRelease: the released amount is not debited.
ReserveAfterRelease_Kept(reserve, amount) == reserve

\* p.reserve = Math.max(0, p.reserve - amount)
ReserveAfterRelease(reserve, amount) == Max(0, reserve - amount)

\* if (p.reserve < FUNDING_CAP) p.capReached = false
CapAfterRelease(capReached, reserve) == IF reserve < FUNDING_CAP THEN FALSE ELSE capReached

\* Faulty variant of ProjectAfterRelease: the amount is taken off the supply
\* as well, as the sell handler does with the tokens it burns.
ProjectAfterRelease_Burns(p, amount) ==
  [p EXCEPT !.reserve = ReserveAfterRelease(p.reserve, amount),
            !.capReached = CapAfterRelease(p.capReached,
                                           ReserveAfterRelease(p.reserve, amount)),
            !.supply = Max(0, p.supply - amount)]

\* p.reserve = ...; if (p.reserve < FUNDING_CAP) p.capReached = false
ProjectAfterRelease(p, amount) ==
  [p EXCEPT !.reserve = ReserveAfterRelease(p.reserve, amount),
            !.capReached = CapAfterRelease(p.capReached,
                                           ReserveAfterRelease(p.reserve, amount))]

\* Faulty variant of NotApproved: the rejections are not counted.
NotApproved_NoMajority(pr) == pr.approvals < 1

\* if (pr.approvals < 1 || pr.approvals <= pr.rejections)
NotApproved(pr) == pr.approvals < 1 \/ pr.approvals <= pr.rejections

Release(userId, id, proposalId) ==
  IF id \notin DOMAIN projects
  THEN Reject("release", userId, id, 0, proposalId, 404, "not found")
  ELSE LET p == projects[id] IN
  IF p.founderId # userId
  THEN Reject("release", userId, id, 0, proposalId, 403, "only founder can release")
  ELSE IF ProposalNotFound(id, proposalId)
  THEN Reject("release", userId, id, 0, proposalId, 404, "proposal not found")
  ELSE LET pr == proposals[proposalId] IN
  IF pr.milestoneId \notin DOMAIN milestones
  THEN Reject("release", userId, id, 0, proposalId, 404, "milestone not found")
  ELSE IF pr.released
  THEN Reject("release", userId, id, 0, proposalId, 400, "already released")
  ELSE IF NotApproved(pr)
  THEN Reject("release", userId, id, 0, proposalId, 400, "not approved yet")
  ELSE LET amount == ReleaseAmount(pr, p) IN
       /\ nGov < limits.gov
       /\ projects' = [projects EXCEPT ![id] = ProjectAfterRelease(p, amount)]
       /\ proposals' = [proposals EXCEPT ![proposalId] = [pr EXCEPT !.released = TRUE]]
       /\ milestones' = [milestones EXCEPT ![pr.milestoneId] =
            [milestones[pr.milestoneId] EXCEPT !.status = "released"]]
       /\ res' = Response("release", userId, id, 0, proposalId, 200, "", amount)
       /\ moved' = [m \in DOMAIN moved \cup {pr.milestoneId} |->
                      (IF m \in DOMAIN moved THEN moved[m] ELSE 0)
                        + (IF m = pr.milestoneId THEN amount ELSE 0)]
       /\ nGov' = nGov + 1
       /\ UNCHANGED <<holdings, offers, nTrades, quote, limits, loop, copies>>

\* GET /launch: the projects shown in the Launch Zone
LaunchZone == {id \in DOMAIN projects : projects[id].capReached}

----------------------------------------------------------------------------
(* The server *)

\* the three copies are not run
CopiesOff == <<>>

\* no Release has moved anything yet
NothingMoved == [m \in {} |-> 0]

\* no request in flight, no handler on the call stack
LoopOff == [pending |-> {}, running |-> {}]

QuoteOff == [phase |-> "off", s |-> 0, f |-> 0, t |-> 0, out |-> Number64(0)]

\* token counts a request may name, around the caller's balance
TokenChoices(userId, id) == {0, 1, Balance(Key(userId, id)), Balance(Key(userId, id)) + 1}

\* token counts an offer may list
OfferAmounts(userId, id) == {0, 2, Balance(Key(userId, id)) + 1}


Init ==
  /\ projects = <<>>
  /\ holdings = [k \in {} |-> 0]
  /\ offers = <<>>
  /\ milestones = <<>>
  /\ proposals = <<>>
  /\ res = NoResponse
  /\ nTrades = 0
  /\ nGov = 0
  /\ quote = QuoteOff
  /\ limits \in Runs
  /\ loop = LoopOff
  /\ moved = NothingMoved
  /\ copies = CopiesOff

\* the response has been sent: the event loop takes the next request
Idle ==
  /\ res # NoResponse
  /\ res' = NoResponse
  /\ UNCHANGED <<store, nTrades, nGov, quote, limits, loop, moved, copies>>

Next ==
  \/ Idle
  \/ /\ res = NoResponse
     /\ \E userId \in limits.founders, valid \in BOOLEAN, fundingGoal \in GoalChoices :
          CreateProject(userId, valid, fundingGoal)
  \/ /\ res = NoResponse
     /\ \E userId \in Users, id \in ProjectIds, amount \in BuyAmounts :
          Buy(userId, id, amount)
  \/ /\ res = NoResponse
     /\ \E userId \in Users, id \in ProjectIds :
          \E tokens \in TokenChoices(userId, id) : Sell(userId, id, tokens)
  \/ /\ res = NoResponse
     /\ \E userId \in Users, id \in ProjectIds, pricePerToken \in PriceChoices :
          \E amount \in OfferAmounts(userId, id) :
            CreateOffer(userId, id, pricePerToken, amount)
  \/ /\ res = NoResponse
     /\ \E buyerId \in Users, id \in ProjectIds, offerId \in OfferIds, amount \in FillAmounts :
          Fill(buyerId, id, offerId, amount)
  \/ /\ res = NoResponse
     /\ \E userId \in Users, id \in ProjectIds, titled \in BOOLEAN,
           amount \in MilestoneAmounts :
          CreateMilestone(userId, id, titled, amount)
  \/ /\ res = NoResponse
     /\ \E userId \in Users, id \in ProjectIds, milestoneId \in MilestoneIds,
           amount \in ProposalAmounts :
          CreateProposal(userId, id, milestoneId, amount)
  \/ /\ res = NoResponse
     /\ \E id \in ProjectIds, proposalId \in ProposalIds, approve \in {0, 1} :
          Vote(id, proposalId, approve)
  \/ /\ res = NoResponse
     /\ \E userId \in Users, id \in ProjectIds, proposalId \in ProposalIds :
          Release(userId, id, proposalId)

Spec == Init /\ [][Next]_vars

----------------------------------------------------------------------------
(* POST /dev/seed: the development route that creates the demo project and  *)
(* simulates its first backers.  Callers are drawn apart from founder_demo   *)
(* and project names apart from 'Aurora AI Vision', so the demo project is   *)
(* the one founder_demo has founded.                                         *)

\* a project field that the object literal leaves out
Absent == 0

\* const backers = [{ user: 'u_alice', amount: 50 }, ...], in units of 0.0001
Backers ==
  <<[user |-> "u_alice", amount |-> 500000],
    [user |-> "u_bob", amount |-> 1200000],
    [user |-> "u_cara", amount |-> 2000000]>>

\* one pass of for (const b of backers): st is the project and the holdings
Backed(st, id, b) ==
  LET tokensOut == buyTokensQuote(st.supply, b.amount)
      hKey == Key(b.user, id)
  IN  IF tokensOut > 0
      THEN [supply |-> st.supply + tokensOut,
            reserve |-> st.reserve + b.amount,
            h |-> [k \in DOMAIN st.h \cup {hKey} |->
                     IF k = hKey
                     THEN (IF hKey \in DOMAIN st.h THEN st.h[hKey] ELSE 0) + tokensOut
                     ELSE st.h[k]]]
      ELSE st

RECURSIVE BackedBy(_, _, _)
\* the first n backers have been simulated
BackedBy(st, id, n) == IF n = 0 THEN st ELSE Backed(BackedBy(st, id, n - 1), id, Backers[n])

\* const existing = Array.from(projects.values()).find(p => p.name === 'Aurora AI Vision')
Existing == {id \in DOMAIN projects : projects[id].founderId = "founder_demo"}

DevSeed(key) ==
  IF key # "demo"
  THEN Reject("seed", "", 0, 0, 0, 403, "forbidden")
  ELSE IF Existing # {}
  THEN /\ res' = Response("seed", "", CHOOSE id \in Existing : TRUE, 0, 0, 200,
                          "already seeded", 0)
       /\ UNCHANGED <<store, nTrades, nGov, quote, limits, loop, moved, copies>>
  ELSE LET id == Len(projects) + 1
           founderKey == Key("founder_demo", id)
       IN
       /\ id <= limits.projects
       /\ \E st \in {BackedBy([supply |-> FOUNDER_ALLOCATION, reserve |-> 0,
                                h |-> [k \in DOMAIN holdings \cup {founderKey} |->
                                         IF k = founderKey THEN 100 ELSE holdings[k]]],
                               id, Len(Backers))} :
            /\ projects' = Append(projects,
                 [founderId |-> "founder_demo", supply |-> st.supply,
                  reserve |-> st.reserve, capReached |-> FALSE, fundingGoal |-> Absent])
            /\ holdings' = st.h
       /\ res' = Response("seed", "", id, 0, 0, 200, "", 0)
       /\ UNCHANGED <<offers, milestones, proposals, nTrades, nGov, quote, limits, loop, moved, copies>>

\* the runs of the server with its seed route: projects only
SeedRuns ==
  { [projects |-> MaxSeedProjects, offers |-> 0, milestones |-> 0, proposals |-> 0,
     founders |-> Users, trades |-> 1, gov |-> 0] }

InitSeed ==
  /\ projects = <<>>
  /\ holdings = [k \in {} |-> 0]
  /\ offers = <<>>
  /\ milestones = <<>>
  /\ proposals = <<>>
  /\ res = NoResponse
  /\ nTrades = 0
  /\ nGov = 0
  /\ quote = QuoteOff
  /\ limits \in SeedRuns
  /\ loop = LoopOff
  /\ moved = NothingMoved
  /\ copies = CopiesOff

NextSeed ==
  \/ Idle
  \/ /\ res = NoResponse
     /\ \E key \in {"demo", ""} : DevSeed(key)
  \/ /\ res = NoResponse
     /\ \E userId \in limits.founders, valid \in BOOLEAN, fundingGoal \in GoalChoices :
          CreateProject(userId, valid, fundingGoal)
  \/ /\ res = NoResponse
     /\ \E userId \in Users, id \in ProjectIds, amount \in BuyAmounts :
          Buy(userId, id, amount)

SpecSeed == InitSeed /\ [][NextSeed]_vars

----------------------------------------------------------------------------
(* The quote engine on its own, in binary64: the inputs are drawn in          *)
(* InitQuote (the funds as the decimal a request carries, in units of        *)
(* 0.0001), QuoteBuy applies buyTokensQuote, QuoteSell then applies          *)
(* sellTokensQuote to the tokens just bought, at the supply the buy has left *)

QuoteSupplies == 0..MaxQuoteSupply \cup {FOUNDER_ALLOCATION}
QuoteFunds == 1..MaxQuoteFunds \cup {FUNDING_CAP}
QuoteTokens == 0..(MaxQuoteSupply + 1) \cup {MAX_STEPS}

InitQuote ==
  /\ projects = <<>>
  /\ holdings = [k \in {} |-> 0]
  /\ offers = <<>>
  /\ milestones = <<>>
  /\ proposals = <<>>
  /\ res = NoResponse
  /\ nTrades = 0
  /\ nGov = 0
  /\ limits = [projects |-> 0, offers |-> 0, milestones |-> 0, proposals |-> 0,
               founders |-> {}, trades |-> 0, gov |-> 0]
  /\ loop = LoopOff
  /\ moved = NothingMoved
  /\ copies = CopiesOff
  /\ quote \in {[phase |-> "input", s |-> s, f |-> f, t |-> 0, out |-> Number64(0)] :
                  s \in QuoteSupplies, f \in QuoteFunds}
               \cup {[phase |-> "sellInput", s |-> s, f |-> 0, t |-> t, out |-> Number64(0)] :
                       s \in QuoteSupplies, t \in QuoteTokens}

QuoteBuy ==
  /\ quote.phase = "input"
  /\ quote' = [quote EXCEPT !.phase = "bought",
                            !.t = buyTokensQuote64(quote.s, Number64(quote.f))]
  /\ UNCHANGED <<store, res, nTrades, nGov, limits, loop, moved, copies>>

QuoteSell ==
  /\ quote.phase = "bought"
  /\ quote' = [quote EXCEPT !.phase = "sold",
                            !.out = sellTokensQuote64(quote.s + quote.t, quote.t)]
  /\ UNCHANGED <<store, res, nTrades, nGov, limits, loop, moved, copies>>

\* sellTokensQuote on arguments of its own
QuoteSellOnly ==
  /\ quote.phase = "sellInput"
  /\ quote' = [quote EXCEPT !.phase = "sellQuoted",
                            !.out = sellTokensQuote64(quote.s, quote.t)]
  /\ UNCHANGED <<store, res, nTrades, nGov, limits, loop, moved, copies>>

NextQuote ==
  \/ QuoteBuy
  \/ QuoteSell
  \/ QuoteSellOnly

SpecQuote == InitQuote /\ [][NextQuote]_vars

----------------------------------------------------------------------------
(* The event loop: requests issued concurrently are in flight together and   *)
(* Node.js runs their handlers in any order. A handler is a synchronous      *)
(* callback: it starts when the call stack is empty and runs through its     *)
(* checks and its writes before the next one starts. Start is a handler up  *)
(* to its last early return, Finish is its writes and its answer.            *)

\* the requests in flight: n tells two equal requests apart
RequestKinds ==
  [op : {"fill"}, userId : Users, amount : 1..MaxEscrow]
    \cup [op : {"sell", "createOffer"}, userId : Founders,
          amount : {FOUNDER_ALLOCATION \div 2 + MaxEscrow, FOUNDER_ALLOCATION - MaxEscrow}]

InFlight(kind) == {[n |-> n, op |-> kind[n].op, userId |-> kind[n].userId,
                    amount |-> kind[n].amount] : n \in DOMAIN kind}

\* the founder has created project 1 and listed an offer; then the requests
\* arrive together
InitLoop ==
  /\ projects = <<[founderId |-> "alice", supply |-> SupplyAfterAllocation(0), reserve |-> 0,
                   capReached |-> FALSE, fundingGoal |-> GoalOf(0)]>>
  /\ \E escrow \in 1..MaxEscrow :
       /\ holdings = [k \in {Key("alice", 1)} |-> FOUNDER_ALLOCATION - escrow]
       /\ offers = <<[projectId |-> 1, sellerId |-> "alice", pricePerToken |-> 5,
                      amount |-> escrow, status |-> "open"]>>
  /\ milestones = <<>>
  /\ proposals = <<>>
  /\ res = NoResponse
  /\ nTrades = 0
  /\ nGov = 0
  /\ quote = QuoteOff
  /\ limits = [projects |-> 1, offers |-> 1 + MaxInFlight, milestones |-> 0, proposals |-> 0,
               founders |-> Founders, trades |-> MaxInFlight, gov |-> 0]
  /\ \E kind \in [1..MaxInFlight -> RequestKinds] :
       loop = [pending |-> InFlight(kind), running |-> {}]
  /\ moved = NothingMoved
  /\ copies = CopiesOff

\* Faulty variant of CallStackEmpty: a handler starts while another is
\* between its checks and its writes.
CallStackEmpty_Preempted == TRUE

\* (req, res) => { ... }: the handlers neither await nor defer anything, so
\* the next callback starts only after the running one has returned
CallStackEmpty == loop.running = {}

\* the handler of request r answers with an error before any write
Refused(r, a, b, code, error) ==
  /\ res' = Response(r.op, r.userId, 1, a, b, code, error, 0)
  /\ loop' = [loop EXCEPT !.pending = loop.pending \ {r}]
  /\ UNCHANGED <<store, nTrades, nGov, quote, limits, moved, copies>>

\* the handler of request r has passed its checks
Started(r, take) ==
  /\ loop' = [pending |-> loop.pending \ {r},
              running |-> loop.running \cup {[req |-> r, take |-> take]}]
  /\ UNCHANGED <<store, res, nTrades, nGov, quote, limits, moved, copies>>

\* the handler of frame f has written and answered
Finished(f, a, b, out) ==
  /\ res' = Response(f.req.op, f.req.userId, 1, a, b, 200, "", out)
  /\ loop' = [loop EXCEPT !.running = loop.running \ {f}]
  /\ UNCHANGED <<nTrades, nGov, quote, limits, moved, copies>>

FillStart(r) ==
  /\ CallStackEmpty
  /\ r \in loop.pending /\ r.op = "fill"
  /\ IF 1 \notin DOMAIN projects
     THEN Refused(r, r.amount, 1, 404, "not found")
     ELSE IF 1 \notin DOMAIN offers \/ offers[1].projectId # 1
     THEN Refused(r, r.amount, 1, 404, "offer not found")
     ELSE IF offers[1].status # "open" \/ offers[1].amount <= 0
     THEN Refused(r, r.amount, 1, 400, "offer not open")
     ELSE IF Take(offers[1], r.amount) <= 0
     THEN Refused(r, r.amount, 1, 400, "amount > 0 required")
     ELSE Started(r, Take(offers[1], r.amount))

FillFinish(f) ==
  /\ f \in loop.running /\ f.req.op = "fill"
  /\ holdings' = Credit(Key(f.req.userId, 1), f.take)
  /\ offers' = [offers EXCEPT ![1] = OfferAfterFill(offers[1], f.take)]
  /\ Finished(f, f.req.amount, 1, f.take)
  /\ UNCHANGED <<projects, milestones, proposals>>

SellStart(r) ==
  /\ CallStackEmpty
  /\ r \in loop.pending /\ r.op = "sell"
  /\ IF 1 \notin DOMAIN projects
     THEN Refused(r, r.amount, 0, 404, "not found")
     ELSE IF r.amount <= 0
     THEN Refused(r, r.amount, 0, 400, "tokens > 0 required")
     ELSE IF InsufficientBalance(Key(r.userId, 1), r.amount)
     THEN Refused(r, r.amount, 0, 400, "insufficient balance")
     ELSE Started(r, 0)

SellFinish(f) ==
  /\ f \in loop.running /\ f.req.op = "sell"
  /\ \E amountOut \in {sellTokensQuote(projects[1].supply, f.req.amount)} :
       /\ projects' = [projects EXCEPT ![1] = ProjectAfterSell(projects[1], f.req.amount, amountOut)]
       /\ holdings' = Debit(Key(f.req.userId, 1), f.req.amount)
       /\ Finished(f, f.req.amount, 0, amountOut)
  /\ UNCHANGED <<offers, milestones, proposals>>

OfferStart(r) ==
  /\ CallStackEmpty
  /\ r \in loop.pending /\ r.op = "createOffer"
  /\ IF 1 \notin DOMAIN projects
     THEN Refused(r, r.amount, 5, 404, "not found")
     ELSE IF r.amount <= 0
     THEN Refused(r, r.amount, 5, 400, "pricePerToken and amount > 0 required")
     ELSE IF InsufficientBalance(Key(r.userId, 1), r.amount)
     THEN Refused(r, r.amount, 5, 400, "insufficient balance")
     ELSE Started(r, 0)

OfferFinish(f) ==
  /\ f \in loop.running /\ f.req.op = "createOffer"
  /\ holdings' = Debit(Key(f.req.userId, 1), f.req.amount)
  /\ offers' = Append(offers,
       [projectId |-> 1, sellerId |-> f.req.userId, pricePerToken |-> 5,
        amount |-> f.req.amount, status |-> "open"])
  /\ Finished(f, f.req.amount, 5, Len(offers) + 1)
  /\ UNCHANGED <<projects, milestones, proposals>>

NextLoop ==
  \/ \E r \in loop.pending : FillStart(r)
  \/ \E f \in loop.running : FillFinish(f)
  \/ \E r \in loop.pending : SellStart(r)
  \/ \E f \in loop.running : SellFinish(f)
  \/ \E r \in loop.pending : OfferStart(r)
  \/ \E f \in loop.running : OfferFinish(f)

SpecLoop == InitLoop /\ [][NextLoop]_vars

----------------------------------------------------------------------------
(* The three copies of the engine side by side: the compiled server          *)
(* (dist/index.js), the long TypeScript server and the compact TypeScript     *)
(* server of the deployment guide each keep their own stores; every request   *)
(* is served by all three.  Buy, sell, create offer and fill read the same in *)
(* the three sources, statement for statement; POST /projects does not.       *)

Copies == {"dist", "long", "compact"}

\* the stores of a server that has just started
EmptyStore == [projects |-> <<>>, holdings |-> [k \in {} |-> 0], offers |-> <<>>]

\* the answer of a handler: the store it leaves and the JSON it sends, with
\* the project, or the offer, that the body carries (none: the empty sequence)
Answer(st, code, error, out, body) ==
  [st |-> st, res |-> [code |-> code, error |-> error, out |-> out, body |-> body]]

\* the one element of a set of one: binds a value that is costly to compute
Only(S) == CHOOSE x \in S : TRUE

NoAnswer == [code |-> 0, error |-> "", out |-> 0, body |-> <<>>]

BalanceIn(h, key) == IF key \in DOMAIN h THEN h[key] ELSE 0

CreditIn(h, key, n) ==
  [k \in DOMAIN h \cup {key} |-> IF k = key THEN BalanceIn(h, key) + n ELSE h[k]]

\* the object literal of POST /projects: the compiled server has no
\* fundingGoal property, the TypeScript servers compute one
ProjectLiteral(c, userId, fundingGoal) ==
  [founderId |-> userId, supply |-> 0, reserve |-> 0, capReached |-> FALSE,
   fundingGoal |-> IF c = "dist" THEN Absent ELSE GoalOf(fundingGoal)]

CopyCreateProject(c, st, userId, valid, fundingGoal) ==
  IF ~valid
  THEN Answer(st, 400, "name, summary, plan required", 0, <<>>)
  ELSE LET id == Len(st.projects) + 1
           project == [ProjectLiteral(c, userId, fundingGoal) EXCEPT
                         !.supply = SupplyAfterAllocation(0)]
       IN  Answer([st EXCEPT !.projects = Append(st.projects, project),
                             !.holdings = CreditIn(st.holdings, Key(userId, id),
                                                   FOUNDER_ALLOCATION)],
                  200, "", 0, <<project>>)

CopyBuy(c, st, userId, id, amount) ==
  IF id \notin DOMAIN st.projects
  THEN Answer(st, 404, "not found", 0, <<>>)
  ELSE LET p == st.projects[id] IN
  IF BuyRefused(p)
  THEN Answer(st, 400, "funding cap reached", 0, <<>>)
  ELSE IF amount <= 0
  THEN Answer(st, 400, "amount > 0 required", 0, <<>>)
  ELSE Only({
    IF NothingBought(tokensOut)
    THEN Answer(st, 400, "amount too small for current price", 0, <<>>)
    ELSE LET reserve == ReserveAfterBuy(p.reserve, amount)
             after == [p EXCEPT !.supply = p.supply + tokensOut,
                                !.reserve = reserve,
                                !.capReached = CapAfterBuy(p.capReached, reserve)]
         IN  Answer([st EXCEPT !.projects[id] = after,
                               !.holdings = CreditIn(st.holdings, Key(userId, id),
                                                     tokensOut)],
                    200, "", tokensOut, <<after>>)
    : tokensOut \in {buyTokensQuote(p.supply, amount)} })

CopySell(c, st, userId, id, tokens) ==
  IF id \notin DOMAIN st.projects
  THEN Answer(st, 404, "not found", 0, <<>>)
  ELSE LET p == st.projects[id]
           key == Key(userId, id) IN
  IF tokens <= 0
  THEN Answer(st, 400, "tokens > 0 required", 0, <<>>)
  ELSE IF key \notin DOMAIN st.holdings \/ st.holdings[key] < tokens
  THEN Answer(st, 400, "insufficient balance", 0, <<>>)
  ELSE Only({
    LET after == ProjectAfterSell(p, tokens, amountOut)
    IN  Answer([st EXCEPT !.projects[id] = after,
                          !.holdings = CreditIn(st.holdings, key, 0 - tokens)],
               200, "", amountOut, <<after>>)
    : amountOut \in {sellTokensQuote(p.supply, tokens)} })

CopyCreateOffer(c, st, userId, id, pricePerToken, amount) ==
  IF id \notin DOMAIN st.projects
  THEN Answer(st, 404, "not found", 0, <<>>)
  ELSE LET key == Key(userId, id) IN
  IF NothingOffered(pricePerToken, amount)
  THEN Answer(st, 400, "pricePerToken and amount > 0 required", 0, <<>>)
  ELSE IF key \notin DOMAIN st.holdings \/ st.holdings[key] < amount
  THEN Answer(st, 400, "insufficient balance", 0, <<>>)
  ELSE LET offer == [projectId |-> id, sellerId |-> userId,
                     pricePerToken |-> pricePerToken, amount |-> amount,
                     status |-> "open"]
       IN  Answer([st EXCEPT !.holdings = CreditIn(st.holdings, key, 0 - amount),
                             !.offers = Append(st.offers, offer)],
                  200, "", 0, <<offer>>)

CopyFill(c, st, buyerId, id, offerId, amount) ==
  IF id \notin DOMAIN st.projects
  THEN Answer(st, 404, "not found", 0, <<>>)
  ELSE IF offerId \notin DOMAIN st.offers \/ st.offers[offerId].projectId # id
  THEN Answer(st, 404, "offer not found", 0, <<>>)
  ELSE LET offer == st.offers[offerId] IN
  IF NotOpen(offer)
  THEN Answer(st, 400, "offer not open", 0, <<>>)
  ELSE LET take == Take(offer, amount) IN
  IF take <= 0
  THEN Answer(st, 400, "amount > 0 required", 0, <<>>)
  ELSE LET after == OfferAfterFill(offer, take)
       IN  Answer([st EXCEPT !.holdings = CreditIn(st.holdings, Key(buyerId, id), take),
                             !.offers[offerId] = after],
                  200, "", take, <<after>>)

\* the runs of the three copies: one project, one offer
CopyRuns ==
  { [projects |-> 1, offers |-> 1, milestones |-> 0, proposals |-> 0,
     founders |-> Founders, trades |-> MaxCopyTrades, gov |-> 0] }

InitCopies ==
  /\ projects = <<>>
  /\ holdings = [k \in {} |-> 0]
  /\ offers = <<>>
  /\ milestones = <<>>
  /\ proposals = <<>>
  /\ res = NoResponse
  /\ nTrades = 0
  /\ nGov = 0
  /\ quote = QuoteOff
  /\ limits \in CopyRuns
  /\ loop = LoopOff
  /\ moved = NothingMoved
  /\ copies = [c \in Copies |-> [st |-> EmptyStore, res |-> NoAnswer]]

\* every copy has served the request; a request that a copy has carried out
\* counts as a trade unless it has created the project
Served3(dist, long, compact, trade) ==
  /\ trade => nTrades < limits.trades
  /\ \E d \in {dist}, l \in {long}, k \in {compact} :
       /\ copies' = [c \in Copies |-> IF c = "dist" THEN d ELSE IF c = "long" THEN l ELSE k]
       /\ nTrades' = IF trade /\ 200 \in {d.res.code, l.res.code, k.res.code}
                     THEN nTrades + 1 ELSE nTrades
  /\ UNCHANGED <<store, res, nGov, quote, limits, loop, moved>>

\* what a caller of the long server holds
Held(userId, id) == BalanceIn(copies["long"].st.holdings, Key(userId, id))

CreateProject3 ==
  \E userId \in limits.founders, valid \in BOOLEAN, fundingGoal \in GoalChoices :
    /\ \A c \in Copies : Len(copies[c].st.projects) < limits.projects
    /\ Served3(CopyCreateProject("dist", copies["dist"].st, userId, valid, fundingGoal),
            CopyCreateProject("long", copies["long"].st, userId, valid, fundingGoal),
            CopyCreateProject("compact", copies["compact"].st, userId, valid, fundingGoal),
            FALSE)

Buy3 ==
  \E userId \in Users, id \in ProjectIds, amount \in BuyAmounts :
    Served3(CopyBuy("dist", copies["dist"].st, userId, id, amount),
            CopyBuy("long", copies["long"].st, userId, id, amount),
            CopyBuy("compact", copies["compact"].st, userId, id, amount),
            TRUE)

Sell3 ==
  \E userId \in Users, id \in ProjectIds :
    \E tokens \in {0, 1, Held(userId, id), Held(userId, id) + 1} :
      Served3(CopySell("dist", copies["dist"].st, userId, id, tokens),
            CopySell("long", copies["long"].st, userId, id, tokens),
            CopySell("compact", copies["compact"].st, userId, id, tokens),
            TRUE)

CreateOffer3 ==
  \E userId \in Users, id \in ProjectIds, pricePerToken \in PriceChoices :
    \E amount \in {0, 2, Held(userId, id) + 1} :
      /\ \A c \in Copies : Len(copies[c].st.offers) < limits.offers
      /\ Served3(CopyCreateOffer("dist", copies["dist"].st, userId, id, pricePerToken, amount),
            CopyCreateOffer("long", copies["long"].st, userId, id, pricePerToken, amount),
            CopyCreateOffer("compact", copies["compact"].st, userId, id, pricePerToken, amount),
            TRUE)

Fill3 ==
  \E buyerId \in Users, id \in ProjectIds, offerId \in OfferIds, amount \in FillAmounts :
    Served3(CopyFill("dist", copies["dist"].st, buyerId, id, offerId, amount),
            CopyFill("long", copies["long"].st, buyerId, id, offerId, amount),
            CopyFill("compact", copies["compact"].st, buyerId, id, offerId, amount),
            TRUE)

NextCopies == CreateProject3 \/ Buy3 \/ Sell3 \/ CreateOffer3 \/ Fill3

SpecCopies == InitCopies /\ [][NextCopies]_vars

----------------------------------------------------------------------------
(* Properties *)

\* a handler has just served a request named op
Served(op) == res = NoResponse /\ res'.op = op

\* a handler has just served a request named op with success
Succeeded(op) == Served(op) /\ res'.code = 200

RECURSIVE SumBalances(_, _)
\* total balance of the holdings in keys that belong to project id
SumBalances(keys, id) ==
  IF keys = {} THEN 0
  ELSE LET k == CHOOSE x \in keys : TRUE IN
       (IF k[2] = id THEN holdings[k] ELSE 0) + SumBalances(keys \ {k}, id)

RECURSIVE SumOpenOffers(_, _)
\* total amount of the open offers of project id among offers 1..n
SumOpenOffers(n, id) ==
  IF n = 0 THEN 0
  ELSE (IF offers[n].projectId = id /\ offers[n].status = "open" THEN offers[n].amount ELSE 0)
       + SumOpenOffers(n - 1, id)

RECURSIVE RangeCost(_, _)
\* price(lo) + price(lo + 1) + ... + price(lo + n - 1)
RangeCost(lo, n) ==
  IF n <= 0 THEN 0
  ELSE IF n = 1 THEN priceAtSupply(lo)
  ELSE LET h == n \div 2 IN RangeCost(lo, h) + RangeCost(lo + h, n - h)

\* C1: token conservation.  In every reachable state, for every project, the
\* balances of all holdings of the project plus the amounts of its open offers
\* add up to the project's supply.
C1_TokenConservation ==
  \A id \in DOMAIN projects :
    SumBalances(DOMAIN holdings, id) + SumOpenOffers(Len(offers), id) = projects[id].supply

\* C1 witness: a fill has just moved part of an offer's escrow to a buyer, the
\* rest is still open.
C1_Witness ==
  /\ res.op = "fill" /\ res.code = 200
  /\ \E o \in DOMAIN offers : offers[o].status = "open" /\ offers[o].amount > 0
  /\ Balance(Key(res.userId, res.id)) > 0

\* the step of C2: no balance is negative after it, and a sell or a create
\* offer naming more tokens than the caller holds (when strict is FALSE: and,
\* for an offer, a positive price) is refused with "insufficient balance" and
\* writes nothing
C2_Step(strict) ==
  /\ \A k \in DOMAIN holdings' : holdings'[k] >= 0
  /\ \A op \in {"sell", "createOffer"} :
       ( /\ Served(op)
         /\ res'.id \in DOMAIN projects
         /\ res'.a > Balance(Key(res'.userId, res'.id))
         /\ (strict \/ op = "sell" \/ res'.b > 0) )
       => /\ res'.code = 400
          /\ res'.error = "insufficient balance"
          /\ UNCHANGED store

\* C2 as claimed: no holding balance is ever negative, and every sell or create
\* offer that asks for more tokens than the caller's balance is rejected with
\* InsufficientBalance instead of debiting.
C2_Original == [][C2_Step(TRUE)]_vars

\* C2 as amended: no holding balance is ever negative; every sell, and every
\* create offer with a positive price, that asks for more tokens than the
\* caller's balance is rejected with InsufficientBalance and writes nothing;
\* a create offer with a non-positive price is rejected with InvalidAmount,
\* whatever its amount, and writes nothing.
C2_NoOverdraft ==
  [][ /\ C2_Step(FALSE)
      /\ (Served("createOffer") /\ res'.id \in DOMAIN projects /\ res'.b <= 0)
         => /\ res'.code = 400
            /\ res'.error = "pricePerToken and amount > 0 required"
            /\ UNCHANGED store ]_vars

\* C2 witness: a sell of more tokens than the caller holds has been refused.
C2_Witness ==
  /\ res.op = "sell" /\ res.error = "insufficient balance"
  /\ res.a > Balance(Key(res.userId, res.id))
  /\ Balance(Key(res.userId, res.id)) > 0

\* C3 as claimed: once a project has been created its supply is at least 100
\* in every later state.
C3_Original == \A id \in DOMAIN projects : projects[id].supply >= FOUNDER_ALLOCATION

\* C3 as amended: a project's supply is never negative, it is at least 100
\* when the project is created, and only a successful sell on the project
\* takes it from 100 or more to less than 100.
C3_SupplyFloor ==
  [][\A id \in DOMAIN projects' :
       /\ projects'[id].supply >= 0
       /\ ( /\ id \in DOMAIN projects => projects[id].supply >= FOUNDER_ALLOCATION
            /\ ~(Succeeded("sell") /\ res'.id = id) )
          => projects'[id].supply >= FOUNDER_ALLOCATION]_vars

\* C3 witness: the founder has sold the whole allocation back to the curve.
C3_Witness ==
  /\ res.op = "sell" /\ res.code = 200
  /\ projects[res.id].supply = 0
  /\ res.userId = projects[res.id].founderId

\* C4: the reserve of every project is at least 0 in every reachable state.
C4_ReserveNonNegative == \A id \in DOMAIN projects : projects[id].reserve >= 0

\* C4 witness: a sell has paid out more than the reserve held, which the clamp
\* has left at 0.
C4_Witness ==
  /\ res.op = "sell" /\ res.code = 200
  /\ res.out > 0
  /\ projects[res.id].reserve = 0

\* C5: a successful buy sets capReached exactly when the reserve after the buy
\* is at least the project's own fundingGoal.
C5_CapFollowsFundingGoal ==
  [][Succeeded("buy") =>
       (projects'[res'.id].capReached
          <=> projects'[res'.id].reserve >= projects'[res'.id].fundingGoal)]_vars

\* C6: capReached, once true, is cleared by nothing but a successful release
\* on the project, and while it is true every buy on the project is rejected
\* with "funding cap reached" and writes nothing.
C6_CapSticksAndBlocksBuys ==
  [][\A id \in DOMAIN projects :
       projects[id].capReached =>
         /\ ~projects'[id].capReached => (Succeeded("release") /\ res'.id = id)
         /\ (Served("buy") /\ res'.id = id)
            => /\ res'.code = 400
               /\ res'.error = "funding cap reached"
               /\ UNCHANGED store]_vars

\* C6 witness: a buy has been refused on a project whose cap is reached and
\* whose reserve a sell has since taken below the cap.
C6_Witness ==
  /\ res.op = "buy" /\ res.error = "funding cap reached" /\ res.a > 0
  /\ projects[res.id].capReached
  /\ projects[res.id].reserve < FUNDING_CAP

\* C7: every project whose reserve is at least 100,000 has capReached set and
\* is listed in the Launch Zone.
C7_CapReachedAtCap ==
  \A id \in DOMAIN projects :
    projects[id].reserve >= FUNDING_CAP => projects[id].capReached /\ id \in LaunchZone

\* C7 witness: a buy has brought a reserve to the cap.
C7_Witness ==
  /\ res.op = "buy" /\ res.code = 200
  /\ projects[res.id].reserve >= FUNDING_CAP

\* C8: a successful buy adds tokensOut = buyTokensQuote(supply, fundsIn) to the
\* supply, the whole fundsIn to the reserve, tokensOut to the caller's balance,
\* and changes no other balance.
C8_BuyEffect ==
  [][Succeeded("buy") =>
       LET id == res'.id
           caller == Key(res'.userId, id) IN
       \E tokensOut \in {buyTokensQuote(projects[id].supply, res'.a)} :
       /\ res'.out = tokensOut
       /\ projects'[id].supply = projects[id].supply + tokensOut
       /\ projects'[id].reserve = projects[id].reserve + res'.a
       /\ holdings'[caller] = Balance(caller) + tokensOut
       /\ \A k \in DOMAIN holdings' \ {caller} : k \in DOMAIN holdings /\ holdings'[k] = holdings[k]
       /\ DOMAIN holdings \subseteq DOMAIN holdings']_vars

\* C8 witness: a buy has left funds unspent on whole tokens in the reserve, on
\* top of an earlier reserve, and another user holds tokens.
C8_Witness ==
  /\ res.op = "buy" /\ res.code = 200
  /\ projects[res.id].reserve > res.a
  /\ RangeCost(projects[res.id].supply - res.out, res.out) < res.a
  /\ \E k \in DOMAIN holdings : k # Key(res.userId, res.id) /\ holdings[k] > 0

RECURSIVE CostFrom(_, _, _)
\* acc + price(lo) + price(lo + 1) + ... + price(lo + n - 1), added in this
\* order in binary64
CostFrom(acc, lo, n) ==
  IF n <= 0 \/ Less(acc, acc) THEN acc
  ELSE IF n = 1 THEN Plus(acc, priceAtSupply64(lo))
  ELSE LET h == n \div 2 IN CostFrom(CostFrom(acc, lo, h), lo + h, n - h)

\* C9: the tokens quoted for funds f at supply s cost at most f, and one more
\* token would cost more than f: the quote is the largest affordable whole
\* number of tokens.
C9_LargestAffordable ==
  quote.phase = "bought" =>
    /\ ~Less(Number64(quote.f), CostFrom(Number64(0), quote.s, quote.t))
    /\ Less(Number64(quote.f), CostFrom(Number64(0), quote.s, quote.t + 1))

\* C10: selling the tokens a buy has just yielded returns at most the funds of
\* the buy.
C10_RoundTrip == quote.phase = "sold" => ~Less(Number64(quote.f), quote.out)

----------------------------------------------------------------------------
(* Reserve accounting *)

\* the reserve of project id before the step; a project starts with none
ReserveBefore(id) == IF id \in DOMAIN projects THEN projects[id].reserve ELSE 0

\* what the step's successful operation on project id pays in, and pays out
PaidIn(id) == IF Succeeded("buy") /\ res'.id = id THEN res'.a ELSE 0
PaidOut(id, op) == IF Succeeded(op) /\ res'.id = id THEN res'.out ELSE 0

\* C11 as stated: a project's reserve is the fundsIn of its successful Buys
\* minus the amountOut of its successful Sells minus the amounts of its
\* successful Releases. A reserve that starts at 0 equals that running total in
\* every state exactly when every step changes it by the step's own term.
C11_Original ==
  [][\A id \in DOMAIN projects' :
       projects'[id].reserve =
         ReserveBefore(id) + PaidIn(id) - PaidOut(id, "sell") - PaidOut(id, "release")]_vars

\* C11 amended: the reserve starts at 0, a successful Buy adds its fundsIn, a
\* successful Release subtracts the amount it moves, and a successful Sell
\* subtracts its amountOut but stops at 0; so the reserve is never below the
\* total of Buys minus Sells minus Releases, and equals it as long as no Sell
\* returned more than the reserve held.
C11_ReserveAccounting ==
  [][\A id \in DOMAIN projects' :
       projects'[id].reserve =
         Max(0, ReserveBefore(id) + PaidIn(id) - PaidOut(id, "sell"))
           - PaidOut(id, "release")]_vars

\* a Sell has paid out of a reserve that a Buy funded and a Release drew on
C11_Witness ==
  /\ res.op = "sell" /\ res.code = 200 /\ res.out > 0
  /\ projects[res.id].reserve > 0
  /\ \E k \in DOMAIN proposals :
       proposals[k].released /\ proposals[k].projectId = res.id

----------------------------------------------------------------------------
(* The offer book *)

\* C12: tokens escrowed in an offer are never credited back to the seller:
\* whenever tokens leave an offer, the holding they are credited to is not the
\* seller's own.
C12_EscrowNeverReturns ==
  [][\A o \in DOMAIN offers :
       offers'[o].amount < offers[o].amount =>
         /\ Succeeded("fill") /\ res'.b = o
         /\ res'.userId # offers[o].sellerId]_vars

\* the balance of a holding after the step
BalanceAfter(key) == IF key \in DOMAIN holdings' THEN holdings'[key] ELSE 0

\* what a Fill does to the offer book: it credits the buyer what it takes out
\* of the offer and never more than the offer holds, nothing else changes an
\* offer's amount, and an offer is filled exactly when it holds nothing
FillAccounting ==
  /\ \A o \in DOMAIN offers' : (offers'[o].status = "filled") <=> (offers'[o].amount = 0)
  /\ \A o \in DOMAIN offers :
       IF Succeeded("fill") /\ res'.b = o
       THEN /\ res'.out > 0 /\ res'.out <= offers[o].amount
            /\ offers'[o].amount = offers[o].amount - res'.out
            /\ BalanceAfter(Key(res'.userId, res'.id))
                 = Balance(Key(res'.userId, res'.id)) + res'.out
       ELSE offers'[o].amount = offers[o].amount

C14_CreateOfferEffect ==
  [][Served("createOffer") =>
       LET key == Key(res'.userId, res'.id)
           amount == res'.a
           pricePerToken == res'.b
       IN  IF pricePerToken <= 0 \/ amount <= 0 \/ Balance(key) < amount
           THEN res'.code # 200 /\ UNCHANGED store
           ELSE res'.code = 200 =>
                  /\ BalanceAfter(key) = Balance(key) - amount
                  /\ \A k \in DOMAIN holdings \ {key} : holdings'[k] = holdings[k]
                  /\ offers' = Append(offers,
                       [projectId |-> res'.id, sellerId |-> res'.userId,
                        pricePerToken |-> pricePerToken, amount |-> amount,
                        status |-> "open"])
                  /\ UNCHANGED <<projects, milestones, proposals>>]_vars

\* an offer has been created out of the seller's balance
C14_Witness ==
  /\ res.op = "createOffer" /\ res.code = 200 /\ res.a > 0
  /\ offers[res.out].amount = res.a /\ offers[res.out].status = "open"
  /\ offers[res.out].sellerId = res.userId
  /\ Balance(Key(res.userId, res.id)) = FOUNDER_ALLOCATION - res.a

----------------------------------------------------------------------------
(* Releases *)

\* the caller may release the proposal through the project named
ReleaseAuthorized(userId, id, proposalId) ==
  /\ id \in DOMAIN projects
  /\ projects[id].founderId = userId
  /\ proposalId \in DOMAIN proposals
  /\ proposals[proposalId].projectId = id
  /\ ~proposals[proposalId].released
  /\ proposals[proposalId].approvals >= 1
  /\ proposals[proposalId].approvals > proposals[proposalId].rejections

\* C15: a Release changes state only when the caller is the project's founder,
\* the proposal belongs to the project, is not yet released, and has at least
\* one approval and more approvals than rejections; every other Release is
\* refused (Forbidden, NotFound, AlreadyReleased, NotApproved) and leaves the
\* reserve, capReached, the proposal and the milestone as they were.
C15_ReleaseAuthorization ==
  [][Served("release") =>
       IF ReleaseAuthorized(res'.userId, res'.id, res'.b)
       THEN res'.code = 200
       ELSE /\ res'.code \in {400, 403, 404}
            /\ res'.error \in {"not found", "only founder can release", "proposal not found",
                               "already released", "not approved yet"}
            /\ UNCHANGED <<projects, proposals, milestones>>]_vars

\* the founder of a project has been refused the release of an approved
\* proposal of another project
C15_Witness ==
  /\ res.op = "release" /\ res.code = 404 /\ res.error = "proposal not found"
  /\ res.b \in DOMAIN proposals
  /\ proposals[res.b].projectId # res.id
  /\ proposals[res.b].approvals = 1 /\ proposals[res.b].rejections = 0
  /\ ~proposals[res.b].released
  /\ projects[res.id].founderId = res.userId

\* what a successful Release does: it moves min(proposal.amount, reserve) out
\* of the reserve and marks the proposal and its milestone released; and a
\* released proposal stays released
ReleaseEffect ==
  /\ Succeeded("release") =>
       LET p == projects[res'.id]
           pr == proposals[res'.b]
       IN  /\ res'.out = Min(pr.amount, p.reserve)
           /\ projects'[res'.id].reserve = p.reserve - res'.out
           /\ proposals'[res'.b].released
           /\ milestones'[pr.milestoneId].status = "released"
  /\ \A k \in DOMAIN proposals : proposals[k].released => proposals'[k].released

\* C16 as stated: a successful Release moves exactly min(proposal.amount,
\* reserve) out of the reserve and sets proposal.released and milestone.status
\* = released; every later Release of the same proposal fails with
\* AlreadyReleased without changing the reserve; proposal.released never
\* returns to false.
C16_Original ==
  [][/\ ReleaseEffect
     /\ Served("release") /\ res'.b \in DOMAIN proposals /\ proposals[res'.b].released =>
          /\ res'.code = 400 /\ res'.error = "already released"
          /\ UNCHANGED projects]_vars

\* C16 amended: as stated, except that a later Release of the same proposal
\* fails with AlreadyReleased when the project's founder calls it through the
\* proposal's own project, and with Forbidden or NotFound otherwise; in every
\* case the reserve is unchanged.
C16_ReleaseOnce ==
  [][/\ ReleaseEffect
     /\ Served("release") /\ res'.b \in DOMAIN proposals /\ proposals[res'.b].released =>
          /\ UNCHANGED store
          /\ IF res'.id \notin DOMAIN projects
             THEN res'.code = 404
             ELSE IF projects[res'.id].founderId # res'.userId
             THEN res'.code = 403
             ELSE IF proposals[res'.b].projectId # res'.id
             THEN res'.code = 404
             ELSE res'.code = 400 /\ res'.error = "already released"]_vars

\* the founder's second Release of a proposal has been refused while the
\* reserve still held funds
C16_Witness ==
  /\ res.op = "release" /\ res.code = 400 /\ res.error = "already released"
  /\ proposals[res.b].released /\ proposals[res.b].amount > 0
  /\ milestones[proposals[res.b].milestoneId].status = "released"
  /\ projects[res.id].reserve > 0

\* C17: a milestone goes from pending to released once: it never returns to
\* pending, and once it is released no successful Release moves funds against
\* it, not even through another proposal that references it.
C17_MilestoneReleasedOnce ==
  [][\A m \in DOMAIN milestones :
       milestones[m].status = "released" =>
         /\ milestones'[m].status = "released"
         /\ ~(/\ Succeeded("release")
              /\ proposals[res'.b].milestoneId = m
              /\ res'.out > 0)]_vars

\* C18: after every successful Release, capReached equals (reserve >= the
\* project's fundingGoal) on the reserve the Release has left, whatever the
\* fundingGoal chosen at creation and the Buys and Sells before.
C18_CapAfterReleaseFollowsGoal ==
  [][Succeeded("release") =>
       projects'[res'.id].capReached
         = (projects'[res'.id].reserve >= projects'[res'.id].fundingGoal)]_vars

----------------------------------------------------------------------------
(* Errors and frames *)

\* the operations C19 names
Operations ==
  {"buy", "sell", "createOffer", "fill", "createMilestone", "createProposal", "vote", "release"}

\* C19: no failed operation mutates state: when Buy, Sell, CreateOffer, Fill,
\* CreateMilestone, CreateProposal, Vote or Release answers with an error,
\* every project, holding, offer, milestone and proposal is as before the call.
C19_FailuresChangeNothing ==
  [][\A op \in Operations : Served(op) /\ res'.code # 200 => UNCHANGED store]_vars

\* a Buy of a user who holds nothing has been refused, and no holding exists
C19_Witness ==
  /\ res.op = "buy" /\ res.code = 400 /\ res.error # ""
  /\ res.id \in DOMAIN projects
  /\ ~HasHolding(Key(res.userId, res.id))

\* C20: Sell never changes capReached: after every Sell, successful or not,
\* every project's capReached is what it was before, even when the sale takes
\* the reserve below the cap.
C20_SellKeepsCapReached ==
  [][Served("sell") =>
       \A id \in DOMAIN projects : projects'[id].capReached = projects[id].capReached]_vars

\* a Sell has taken the reserve of a capped project below the cap
C20_Witness ==
  /\ res.op = "sell" /\ res.code = 200 /\ res.out > 0
  /\ projects[res.id].capReached
  /\ projects[res.id].reserve < FUNDING_CAP
  /\ projects[res.id].reserve < projects[res.id].fundingGoal

----------------------------------------------------------------------------
(* Governance *)

\* the request just served came from someone who is not the project's founder
ByStranger == res'.id \in DOMAIN projects /\ projects[res'.id].founderId # res'.userId

\* C21: CreateMilestone and CreateProposal by anyone but the project's founder
\* fail with Forbidden and create nothing, so every milestone and every
\* proposal is created by the founder of its project; CreateProposal also
\* fails when the milestone is missing or of another project, or when the
\* amount is not in (0, milestone.amount].
C21_FounderOnlyGovernance ==
  [][/\ \A op \in {"createMilestone", "createProposal"} :
          Served(op) /\ ByStranger => res'.code = 403 /\ UNCHANGED store
     /\ Len(milestones') # Len(milestones) =>
          /\ Succeeded("createMilestone") /\ ~ByStranger
          /\ Len(milestones') = Len(milestones) + 1
          /\ milestones'[Len(milestones')].projectId = res'.id
     /\ Len(proposals') # Len(proposals) =>
          /\ Succeeded("createProposal") /\ ~ByStranger
          /\ Len(proposals') = Len(proposals) + 1
          /\ proposals'[Len(proposals')].projectId = res'.id
     /\ Served("createProposal") /\
          (\/ res'.b \notin DOMAIN milestones
           \/ milestones[res'.b].projectId # res'.id
           \/ res'.a <= 0
           \/ res'.a > milestones[res'.b].amount) =>
          res'.code # 200 /\ UNCHANGED store]_vars

\* the founder of one project has been refused a proposal for a milestone of
\* another founder's project
C21_Witness ==
  /\ res.op = "createProposal" /\ res.code = 403
  /\ res.b \in DOMAIN milestones /\ milestones[res.b].projectId = res.id
  /\ res.a > 0 /\ res.a <= milestones[res.b].amount
  /\ \E other \in DOMAIN projects : projects[other].founderId = res.userId
  /\ proposals = <<>>

----------------------------------------------------------------------------
(* Concurrency *)

\* C22: whatever the order in which concurrently issued requests are served,
\* each handler's check and write are one step: the Fills of an offer never
\* take more out of it than it holds, the Sells and CreateOffers of a user
\* never debit more than the balance, and no token is made or lost.
C22_AtomicHandlers ==
  /\ \A o \in DOMAIN offers : offers[o].amount >= 0
  /\ \A k \in DOMAIN holdings : holdings[k] >= 0
  /\ \A id \in DOMAIN projects :
       SumBalances(DOMAIN holdings, id) + SumOpenOffers(Len(offers), id)
         = projects[id].supply

\* of two Fills in flight together for all that an offer holds, one has
\* emptied the offer and the other has been refused
C22_Witness ==
  /\ loop = LoopOff
  /\ res.op = "fill" /\ res.error = "offer not open"
  /\ offers[1].status = "filled" /\ offers[1].amount = 0
  /\ \E u \in Users : Balance(Key(u, 1)) = MaxEscrow

----------------------------------------------------------------------------
(* The curve *)

\* what n consecutive tokens cost when the first is priced at the price of
\* supply level lo and each next one a slope higher, in units of 0.0001:
\* (0.01 + 0.0001 lo) + (0.01 + 0.0001 (lo + 1)) + ...
Priced(lo, n) == n * 100 + n * lo + (n * (n - 1)) \div 2

\* a Buy of exactly 10 (100000 units) has just succeeded on a project that
\* held its founder allocation and no funds
FreshBuyOfTen ==
  /\ Succeeded("buy") /\ res'.a = 100000
  /\ projects[res'.id].supply = 100 /\ projects[res'.id].reserve = 0

\* the Buy served took as many tokens as its funds pay for when the first is
\* priced at supply level lo, and left supply = 100 + tokensOut, reserve = 10
BoughtFrom(lo) ==
  /\ Priced(lo, res'.out) <= res'.a /\ res'.a < Priced(lo, res'.out + 1)
  /\ projects'[res'.id].supply = 100 + res'.out
  /\ projects'[res'.id].reserve = 100000

\* C23 as stated: on a freshly created project (supply 100, reserve 0) a Buy
\* with fundsIn = 10 prices its consecutive tokens at 0.01, 0.0101, 0.0102,
\* ... and ends with supply = 100 + tokensOut and reserve = 10.
C23_Original == [][FreshBuyOfTen => BoughtFrom(0)]_vars

\* C23 amended: the consecutive tokens are priced at 0.02, 0.0201, 0.0202,
\* ...: the first token bought costs price(100) = 0.02, the founder
\* allocation has moved the curve; tokensOut is 290.
C23_FreshBuyPrices == [][FreshBuyOfTen => BoughtFrom(100) /\ res'.out = 290]_vars

\* such a Buy has been served
C23_Witness ==
  /\ res.op = "buy" /\ res.code = 200 /\ res.a = 100000 /\ res.out = 290
  /\ projects[res.id].supply = 390 /\ projects[res.id].reserve = 100000

\* C24: the ledger's credit and debit are inverse: a Buy adds the tokens it
\* credits to the caller's balance and to the supply, a Sell takes the tokens
\* it debits off both, so a caller who buys t tokens and at once sells t
\* tokens finds the balance and the supply exactly where they were.
C24_CreditDebitInverse ==
  [][/\ Succeeded("buy") =>
          LET key == Key(res'.userId, res'.id) IN
          /\ res'.out > 0
          /\ BalanceAfter(key) = Balance(key) + res'.out
          /\ projects'[res'.id].supply = projects[res'.id].supply + res'.out
     /\ Succeeded("sell") =>
          LET key == Key(res'.userId, res'.id) IN
          /\ res'.a > 0
          /\ BalanceAfter(key) = Balance(key) - res'.a
          /\ projects'[res'.id].supply = projects[res'.id].supply - res'.a]_vars

\* a user who held nothing has bought tokens and sold as many at once:
\* the balance is 0 again and the supply is the founder allocation again
C24_Witness ==
  /\ res.op = "sell" /\ res.code = 200 /\ res.a > 1
  /\ nTrades = 2
  /\ projects[res.id].founderId # res.userId
  /\ HasHolding(Key(res.userId, res.id)) /\ Balance(Key(res.userId, res.id)) = 0
  /\ projects[res.id].supply = FOUNDER_ALLOCATION
  /\ offers = <<>>

\* C25: the price function is strictly increasing: price(s + 1) > price(s),
\* with price(s) = basePrice + slope * s as binary64 computes it, at every
\* supply level s that a quote walks over.
C25_PriceStrictlyIncreasing ==
  quote.phase # "off" =>
    \A s \in quote.s .. (quote.s + quote.t) :
      Less(priceAtSupply64(s), priceAtSupply64(s + 1))

\* a quote has walked over as many supply levels as the engine allows
C25_Witness == quote.phase = "bought" /\ quote.t = MAX_STEPS /\ quote.s = FOUNDER_ALLOCATION

\* C26: a successful Sell pays for every token it burns: for any number of
\* tokens the caller holds, more than 5000 included, amountOut is the sum of
\* price(k) over the supply levels k from supply - tokensIn to supply - 1, as
\* many levels as the supply is reduced by.
C26_SellPaysEveryToken ==
  [][Succeeded("sell") =>
       /\ projects'[res'.id].supply = projects[res'.id].supply - res'.a
       /\ res'.out = Priced(projects[res'.id].supply - res'.a, res'.a)]_vars

RECURSIVE SumDown(_, _, _)
\* acc + price(hi) + price(hi - 1) + ... + price(hi - n + 1), added in this
\* order in binary64
SumDown(acc, hi, n) ==
  IF n <= 0 \/ Less(acc, acc) THEN acc
  ELSE IF n = 1 THEN Plus(acc, priceAtSupply64(hi))
  ELSE LET h == n \div 2 IN SumDown(SumDown(acc, hi, h), hi - h, n - h)

\* C27: for every supply s >= 0 and every 0 <= t <= 5000, SellQuote(s, t) is
\* the sum of price(k) over the min(t, s) supply levels k = s - 1, s - 2, ...,
\* s - min(t, s); in particular SellQuote(0, t) = 0.
C27_SellQuoteSum ==
  quote.phase = "sellQuoted" =>
    quote.out = SumDown(Number64(0), quote.s - 1, Min(quote.t, quote.s))

\* C28: the total moved out of the reserve by the successful Releases against
\* one milestone never exceeds that milestone's amount, however many proposals
\* the founder creates for it.
C28_MilestoneTotalBounded ==
  \A m \in DOMAIN moved :
    m \in DOMAIN milestones /\ moved[m] <= milestones[m].amount

\* C29: a released proposal is terminal: once proposal.released is true no later
\* operation, Vote included, changes any field of that proposal, so its
\* approvals and rejections stay at the values they had when it was released.
C29_ReleasedIsTerminal ==
  [][\A k \in DOMAIN proposals :
       proposals[k].released =>
         k \in DOMAIN proposals' /\ proposals'[k] = proposals[k]]_vars

\* what a Vote on proposal k must do: one counter, the one the request names,
\* goes up by one and nothing else of the governance or of the reserve moves
VoteCounted(k) ==
  /\ res'.code = 200
  /\ proposals'[k].approvals + proposals'[k].rejections
       = proposals[k].approvals + proposals[k].rejections + 1
  /\ IF res'.a = 1
     THEN /\ proposals'[k].approvals = proposals[k].approvals + 1
          /\ proposals'[k].rejections = proposals[k].rejections
     ELSE /\ proposals'[k].rejections = proposals[k].rejections + 1
          /\ proposals'[k].approvals = proposals[k].approvals
  /\ proposals'[k].released = proposals[k].released
  /\ proposals'[k].amount = proposals[k].amount
  /\ proposals'[k].milestoneId = proposals[k].milestoneId
  /\ \A j \in DOMAIN proposals : j # k => proposals'[j] = proposals[j]
  /\ UNCHANGED <<milestones, projects, holdings, offers>>

\* over any step the two counters of every proposal only grow
CountersGrow ==
  \A k \in DOMAIN proposals :
    /\ k \in DOMAIN proposals'
    /\ proposals'[k].approvals >= proposals[k].approvals
    /\ proposals'[k].rejections >= proposals[k].rejections

\* C30 as stated: every Vote on an existing proposal, by any caller and any
\* number of times, increments exactly one of approvals or rejections by
\* exactly 1 and leaves the other counter, the released flag, the milestone and
\* the project's reserve unchanged; both counters are non-decreasing over any
\* run.
C30_Original ==
  [][/\ Served("vote") /\ res'.b \in DOMAIN proposals => VoteCounted(res'.b)
     /\ CountersGrow]_vars

\* C30 amended: as stated, for every Vote that reaches the proposal through the
\* project it belongs to; a Vote that names an existing proposal under another
\* project id fails with NotFound and counts nothing.
C30_VoteCountsOnce ==
  [][/\ Served("vote") /\ res'.b \in DOMAIN proposals =>
          IF proposals[res'.b].projectId = res'.id
          THEN VoteCounted(res'.b)
          ELSE res'.code = 404 /\ UNCHANGED store
     /\ CountersGrow]_vars

\* a proposal has taken an approving and a rejecting vote and then a further
\* vote, while its project's reserve held funds
C30_Witness ==
  /\ res.op = "vote" /\ res.code = 200
  /\ proposals[res.b].approvals + proposals[res.b].rejections >= 3
  /\ proposals[res.b].approvals >= 1 /\ proposals[res.b].rejections >= 1
  /\ projects[res.id].reserve > 0

----------------------------------------------------------------------------
(* Fill: transfer and rejections *)

\* a successful Fill credits the buyer min(offer.amount, requested amount),
\* takes as much out of the offer and moves nothing else
FillTransfers ==
  Succeeded("fill") =>
    LET key == Key(res'.userId, res'.id) IN
    /\ res'.b \in DOMAIN offers
    /\ res'.out = Min(offers[res'.b].amount, res'.a)
    /\ BalanceAfter(key) = Balance(key) + res'.out
    /\ \A k \in DOMAIN holdings \ {key} : holdings'[k] = holdings[k]
    /\ DOMAIN holdings' \subseteq DOMAIN holdings \cup {key}
    /\ offers'[res'.b].amount = offers[res'.b].amount - res'.out
    /\ \A o \in DOMAIN offers \ {res'.b} : offers'[o] = offers[o]
    /\ UNCHANGED <<projects, milestones, proposals>>

\* the offer a Fill names is missing or listed under another project
OfferMissing == res'.b \notin DOMAIN offers \/ offers[res'.b].projectId # res'.id

\* the offer a Fill names exists and is no longer open
OfferClosed == res'.b \in DOMAIN offers /\ offers[res'.b].status # "open"

\* C31 as stated: a Fill transfers take = min(offer.amount, requestedAmount)
\* tokens to the buyer and nothing more; it is rejected with NotFound when the
\* offer does not exist or belongs to another project than the one addressed,
\* with OfferNotOpen when the offer is not open, and with InvalidAmount when
\* requestedAmount <= 0.
C31_Original ==
  [][/\ FillTransfers
     /\ Served("fill") /\ OfferMissing => res'.code = 404 /\ UNCHANGED store
     /\ Served("fill") /\ OfferClosed =>
          res'.code = 400 /\ res'.error = "offer not open" /\ UNCHANGED store
     /\ Served("fill") /\ res'.a <= 0 =>
          res'.code = 400 /\ res'.error = "amount > 0 required" /\ UNCHANGED store]_vars

\* C31 amended: as stated, the three rejections taken in that order: NotFound
\* comes first, OfferNotOpen applies to an offer reached through its own
\* project, and InvalidAmount to a requestedAmount <= 0 on an open offer.
C31_FillTakesAndRejects ==
  [][/\ FillTransfers
     /\ Served("fill") =>
          IF OfferMissing
          THEN res'.code = 404 /\ UNCHANGED store
          ELSE IF OfferClosed
          THEN res'.code = 400 /\ res'.error = "offer not open" /\ UNCHANGED store
          ELSE IF res'.a <= 0
          THEN res'.code = 400 /\ res'.error = "amount > 0 required" /\ UNCHANGED store
          ELSE res'.code = 200]_vars

\* a Fill that asked for more than the offer held has been given all of it,
\* and the offer is filled
C31_Witness ==
  /\ res.op = "fill" /\ res.code = 200
  /\ res.a > res.out /\ res.out > 0
  /\ offers[res.b].status = "filled"
  /\ Balance(Key(res.userId, res.id)) >= res.out

\* the states of an offer: open while it holds tokens, filled when it holds
\* none, and no other status
OfferStates(book) ==
  \A o \in DOMAIN book :
    /\ book[o].status \in {"open", "filled"}
    /\ (book[o].status = "open") <=> (book[o].amount > 0)
    /\ (book[o].status = "filled") <=> (book[o].amount = 0)

\* C32: in every reachable state an offer is open if and only if its amount is
\* > 0 and filled if and only if its amount is 0; the status cancelled is never
\* reached, offer.amount never increases, and a filled offer never becomes
\* open again.
C32_OfferStateInvariant ==
  [][/\ OfferStates(offers) /\ OfferStates(offers')
     /\ \A o \in DOMAIN offers :
          /\ o \in DOMAIN offers'
          /\ offers'[o].amount <= offers[o].amount
          /\ offers[o].status = "filled" => offers'[o].status = "filled"]_vars

\* one offer of the book has been emptied by Fills, and a Fill named it again
\* and was refused
C32_Witness ==
  /\ res.op = "fill" /\ res.code = 400 /\ res.b \in DOMAIN offers
  /\ offers[res.b].status = "filled" /\ offers[res.b].amount = 0
  /\ offers[res.b].projectId = res.id /\ res.a > 0

----------------------------------------------------------------------------
(* Buy: rejections *)

\* C33: a Buy with fundsIn > 0 on a project that is not capReached fails with
\* QuoteTooSmall if and only if fundsIn < price(supply); on a project that is
\* capReached a Buy fails with CapReached whatever fundsIn is.
C33_BuyRejections ==
  [][Served("buy") /\ res'.id \in DOMAIN projects =>
       LET p == projects[res'.id] IN
       IF p.capReached
       THEN res'.code = 400 /\ res'.error = "funding cap reached" /\ UNCHANGED store
       ELSE res'.a > 0 =>
              /\ (res'.error = "amount too small for current price")
                   <=> (res'.a < priceAtSupply(p.supply))
              /\ res'.error = "amount too small for current price" =>
                   res'.code = 400 /\ UNCHANGED store
              /\ res'.error # "amount too small for current price" =>
                   res'.code = 200 /\ res'.out >= 1]_vars

\* a Buy below the price of the next token has been refused on a project that
\* is open for funding
C33_Witness ==
  /\ res.op = "buy" /\ res.error = "amount too small for current price"
  /\ res.a > 0 /\ res.a < priceAtSupply(projects[res.id].supply)
  /\ ~projects[res.id].capReached

----------------------------------------------------------------------------
(* Termination of the quote loops *)

\* the loop of buyTokensQuote after MAX_STEPS + 1 evaluations of its condition
BuyRun(currentSupply, amountIn) ==
  BuyLoop([tokens |-> 0, budget |-> amountIn, s |-> currentSupply,
           steps |-> 0, run |-> TRUE], MAX_STEPS + 1)

\* the loop of sellTokensQuote after MAX_STEPS + 1 evaluations of its condition
SellRun(currentSupply, tokensIn) ==
  SellLoop([out |-> 0, s |-> Max(0, currentSupply - 1), t |-> tokensIn,
            steps |-> 0, run |-> TRUE], MAX_STEPS + 1)

\* the loop has exited, and its body has run MAX_STEPS times at most
Exited(st) == ~st.run /\ st.steps <= MAX_STEPS

\* C34: BuyQuote and SellQuote terminate after at most 5000 loop iterations on
\* every input, so a single Buy never mints more than 5000 tokens however
\* large fundsIn is, while the reserve still grows by the whole fundsIn.
C34_QuotesTerminate ==
  [][/\ Succeeded("buy") =>
          \E st \in {BuyRun(projects[res'.id].supply, res'.a)} :
            Exited(st) /\ st.tokens = res'.out
     /\ Succeeded("sell") =>
          \E st \in {SellRun(projects[res'.id].supply, res'.a)} : Exited(st)
     /\ Succeeded("buy") =>
          /\ res'.out <= MAX_STEPS
          /\ projects'[res'.id].supply = projects[res'.id].supply + res'.out
          /\ projects'[res'.id].supply <= projects[res'.id].supply + MAX_STEPS
          /\ projects'[res'.id].reserve = projects[res'.id].reserve + res'.a]_vars

\* a Buy whose funds pay for far more than 5000 tokens has minted exactly 5000
\* and the reserve holds all of the funds
C34_Witness ==
  /\ res.op = "buy" /\ res.code = 200 /\ res.out = MAX_STEPS
  /\ res.a > Priced(projects[res.id].supply - MAX_STEPS, MAX_STEPS + 1)
  /\ projects[res.id].reserve >= res.a

----------------------------------------------------------------------------
(* Frame conditions *)

\* the operations of the secondary market and of governance that take no
\* funds out
OffCurve == {"createOffer", "fill", "createMilestone", "createProposal", "vote"}

\* supply, reserve and capReached of every project are as they were
CurveUnchanged ==
  /\ DOMAIN projects' = DOMAIN projects
  /\ \A id \in DOMAIN projects :
       /\ projects'[id].supply = projects[id].supply
       /\ projects'[id].reserve = projects[id].reserve
       /\ projects'[id].capReached = projects[id].capReached

\* C35: CreateOffer, Fill, CreateMilestone, CreateProposal and Vote leave the
\* project's supply, reserve and capReached unchanged, and a Release changes
\* only reserve, capReached, the proposal and its milestone: supply, holdings
\* and offers are unchanged.
C35_CurveUntouched ==
  [][/\ \A op \in OffCurve : Served(op) => CurveUnchanged
     /\ Served("release") =>
          /\ UNCHANGED <<holdings, offers>>
          /\ DOMAIN projects' = DOMAIN projects
          /\ \A id \in DOMAIN projects :
               IF id = res'.id
               THEN projects'[id] = [projects[id] EXCEPT
                                       !.reserve = projects'[id].reserve,
                                       !.capReached = projects'[id].capReached]
               ELSE projects'[id] = projects[id]
          /\ DOMAIN proposals' = DOMAIN proposals
          /\ \A k \in DOMAIN proposals : k # res'.b => proposals'[k] = proposals[k]
          /\ DOMAIN milestones' = DOMAIN milestones
          /\ \A m \in DOMAIN milestones :
               (res'.b \notin DOMAIN proposals \/ proposals[res'.b].milestoneId # m)
                 => milestones'[m] = milestones[m]]_vars

\* a Release has moved funds out of a reserve that a Buy had filled to the cap,
\* with the minted tokens and an offer still in place
C35_Witness ==
  /\ res.op = "release" /\ res.code = 200 /\ res.out > 0
  /\ projects[res.id].supply > FOUNDER_ALLOCATION
  /\ ~projects[res.id].capReached
  /\ milestones[proposals[res.b].milestoneId].status = "released"
  /\ Len(offers) > 0

\* the operations that are addressed to a project
Addressed ==
  {"buy", "sell", "createOffer", "fill", "createMilestone", "createProposal",
   "vote", "release"}

\* the entries of a sequence of records that belong to other projects than P
\* are as they were, and no entry of another project has been added
OthersKept(before, after, P) ==
  /\ DOMAIN before \subseteq DOMAIN after
  /\ \A k \in DOMAIN before : before[k].projectId # P => after[k] = before[k]
  /\ \A k \in DOMAIN after \ DOMAIN before : after[k].projectId = P

\* everything that belongs to other projects than P is as it was
Isolated(P) ==
  /\ DOMAIN projects' = DOMAIN projects
  /\ \A id \in DOMAIN projects : id # P => projects'[id] = projects[id]
  /\ \A k \in DOMAIN holdings : k[2] # P => k \in DOMAIN holdings' /\ holdings'[k] = holdings[k]
  /\ \A k \in DOMAIN holdings' \ DOMAIN holdings : k[2] = P
  /\ OthersKept(offers, offers', P)
  /\ OthersKept(milestones, milestones', P)
  /\ OthersKept(proposals, proposals', P)

\* C36: every operation addressed to project P (Buy, Sell, CreateOffer, Fill,
\* CreateMilestone, CreateProposal, Vote, Release) leaves every other
\* project's supply, reserve, capReached, holdings, offers, milestones and
\* proposals unchanged, even when it names an offer, a milestone or a proposal
\* that belongs to another project.
C36_ProjectIsolation ==
  [][\A op \in Addressed : Served(op) => Isolated(res'.id)]_vars

\* a Vote addressed to one project has named a proposal of another project,
\* and that proposal's counters are where its own votes had left them
C36_Witness ==
  /\ res.op = "vote" /\ res.code = 404 /\ res.id \in DOMAIN projects
  /\ res.b \in DOMAIN proposals /\ proposals[res.b].projectId # res.id
  /\ proposals[res.b].approvals + proposals[res.b].rejections = 1

----------------------------------------------------------------------------
(* Project creation *)

\* the project that the step has added to the store
Created == projects'[Len(projects')]

\* C37: project creation establishes supply = 100, reserve = 0, capReached =
\* false and a founder holding of exactly 100 tokens, with fundingGoal equal to
\* the supplied value when that is a positive number and 100,000 otherwise;
\* every project in the store has a positive fundingGoal.
C37_CreationEstablishes ==
  [][/\ Len(projects') # Len(projects) =>
          /\ Len(projects') = Len(projects) + 1
          /\ Created.supply = 100 /\ Created.reserve = 0 /\ ~Created.capReached
          /\ BalanceAfter(Key(Created.founderId, Len(projects'))) = 100
          /\ Created.fundingGoal = (IF res'.a > 0 THEN res'.a ELSE FUNDING_CAP)
     /\ \A id \in DOMAIN projects' : projects'[id].fundingGoal > 0]_vars

----------------------------------------------------------------------------
(* The copies of the engine *)

\* what the claim compares of a store: supply, reserve and capReached of each
\* project, the holdings and the offers
Compared(st) ==
  [curve |-> [id \in DOMAIN st.projects |->
                <<st.projects[id].supply, st.projects[id].reserve,
                  st.projects[id].capReached>>],
   holdings |-> st.holdings,
   offers |-> st.offers]

\* C38: for every sequence of project creation, Buy, Sell, CreateOffer and
\* Fill calls the compiled server, the long TypeScript server and the compact
\* TypeScript server produce the same results and the same supply, reserve,
\* capReached, holdings and offers.
C38_CopiesAgree ==
  copies # CopiesOff =>
    \A c \in Copies, d \in Copies :
      /\ copies[c].res = copies[d].res
      /\ Compared(copies[c].st) = Compared(copies[d].st)
====
